---------------------------- MODULE Spec2Model ----------------------------
(***************************************************************************)
(* TheaterShowings: the five theater scrapers, their date and time         *)
(* normalisation, and the aggregator getAllShowtimes (src/scrapers).       *)
(*                                                                         *)
(* Conventions of the model                                                *)
(*  - A JavaScript string is a sequence of one-character strings.          *)
(*  - A JavaScript Date at local midnight is a day number (days since      *)
(*    1 January of EpochYear); the clock is a day number and an hour of    *)
(*    the day.  The local time zone is taken to have no DST change.        *)
(*  - An ISO date string "YYYY-MM-DD" is kept as the triple <<y, m, d>> of *)
(*    the numbers it prints; IsoStr gives its characters.                  *)
(*  - What a regular expression or a CSS selector finds in a document is   *)
(*    an input: a date text is the groups its pattern captures.            *)
(***************************************************************************)
EXTENDS Integers, Sequences, FiniteSets, TLC

VARIABLES
  now,      \* the clock: [day |-> day number, hour |-> 0..23]
  parsed,   \* the date routine applied to a date text, and what it gave
  fetchSt,  \* per URL: "idle", "pending", "hung" or the response kind
  pc,       \* per scraper: where its promise stands
  out,      \* per scraper: the showtimes array it is filling / has returned
  todo,     \* per scraper: detail pages still to be fetched
  movieUrls,\* Low Cinema's Map of movie page -> fallback title
  aggPc,    \* getAllShowtimes: "idle", "waiting", "returned", "threw"
  feed,     \* the array getAllShowtimes returned
  env,      \* process.env.CRON_SECRET: <<>> when unset, else <<secret>>
  job,      \* per POST /api/notify request: where it stands and its locals
  notificationLog, \* the rows of the notificationLog table
  inbox,    \* per (subscriber, showtime id): how many emails named it
  subscribers, \* the subscriber table with its preference rows, and the last reply
  home      \* the state of the Home component

scraperVars == <<now, parsed, fetchSt, pc, out, todo, movieUrls, aggPc, feed>>
appVars == <<env, job, notificationLog, inbox, subscribers, home>>
vars == <<scraperVars, appVars>>

-----------------------------------------------------------------------------
(* Strings *)

Digits == <<"0", "1", "2", "3", "4", "5", "6", "7", "8", "9">>
LowerCs == <<"a", "b", "c", "d", "e", "f", "g", "h", "i", "j", "k", "l", "m",
             "n", "o", "p", "q", "r", "s", "t", "u", "v", "w", "x", "y", "z">>
UpperCs == <<"A", "B", "C", "D", "E", "F", "G", "H", "I", "J", "K", "L", "M",
             "N", "O", "P", "Q", "R", "S", "T", "U", "V", "W", "X", "Y", "Z">>

IndexIn(c, cs) == IF \E i \in 1..Len(cs) : cs[i] = c
                  THEN CHOOSE i \in 1..Len(cs) : cs[i] = c
                  ELSE 0

IsDigit(c) == IndexIn(c, Digits) > 0
IsLower(c) == IndexIn(c, LowerCs) > 0
IsUpper(c) == IndexIn(c, UpperCs) > 0
IsSpace(c) == c = " "

UpperChar(c) == IF IsLower(c) THEN UpperCs[IndexIn(c, LowerCs)] ELSE c
LowerChar(c) == IF IsUpper(c) THEN LowerCs[IndexIn(c, UpperCs)] ELSE c

\* String.prototype.toUpperCase / toLowerCase
ToUpperCase(s) == [i \in 1..Len(s) |-> UpperChar(s[i])]
ToLowerCase(s) == [i \in 1..Len(s) |-> LowerChar(s[i])]

\* String(n) for a natural number
RECURSIVE NumStr(_)
NumStr(n) == IF n < 10 THEN <<Digits[n + 1]>>
             ELSE NumStr(n \div 10) \o <<Digits[(n % 10) + 1]>>

\* String.prototype.padStart(2, '0')
PadStart2(s) == IF Len(s) >= 2 THEN s ELSE IF Len(s) = 1 THEN <<"0">> \o s ELSE <<"0", "0">>

\* parseInt(s, 10): the leading digits of s; -1 stands for NaN
RECURSIVE ParseIntAcc(_, _, _)
ParseIntAcc(s, i, acc) ==
  IF i > Len(s) \/ ~IsDigit(s[i]) THEN acc
  ELSE ParseIntAcc(s, i + 1, (IF acc < 0 THEN 0 ELSE acc) * 10 + (IndexIn(s[i], Digits) - 1))
ParseInt(s) == ParseIntAcc(s, 1, -1)

\* String.prototype.split(sep) for a one-character separator
RECURSIVE SplitAcc(_, _, _, _)
SplitAcc(s, sep, i, cur) ==
  IF i > Len(s) THEN <<cur>>
  ELSE IF s[i] = sep THEN <<cur>> \o SplitAcc(s, sep, i + 1, <<>>)
  ELSE SplitAcc(s, sep, i + 1, Append(cur, s[i]))
Split(s, sep) == SplitAcc(s, sep, 1, <<>>)

\* Primary collation weight of a character in String.prototype.localeCompare:
\* white space, then punctuation, then digits, then letters (case ignored).
PrimaryWeight(c) ==
  IF c = " " THEN 1
  ELSE IF c = "-" THEN 2
  ELSE IF c = ":" THEN 3
  ELSE IF IsDigit(c) THEN 10 + IndexIn(c, Digits)
  ELSE IF IsLower(c) THEN 30 + IndexIn(c, LowerCs)
  ELSE IF IsUpper(c) THEN 30 + IndexIn(c, UpperCs)
  ELSE 9

\* Case weight (the tertiary level): lower case before upper case.
CaseWeight(c) == IF IsUpper(c) THEN 1 ELSE 0

\* Lexicographic comparison of two sequences of weights: -1, 0 or 1
RECURSIVE LexCompare(_, _, _)
LexCompare(a, b, i) ==
  IF i > Len(a) /\ i > Len(b) THEN 0
  ELSE IF i > Len(a) THEN -1
  ELSE IF i > Len(b) THEN 1
  ELSE IF a[i] < b[i] THEN -1
  ELSE IF a[i] > b[i] THEN 1
  ELSE LexCompare(a, b, i + 1)

\* a.localeCompare(b): negative, zero or positive
LocaleCompare(a, b) ==
  LET p == LexCompare([i \in 1..Len(a) |-> PrimaryWeight(a[i])],
                      [i \in 1..Len(b) |-> PrimaryWeight(b[i])], 1)
  IN  IF p # 0 THEN p
      ELSE LexCompare([i \in 1..Len(a) |-> CaseWeight(a[i])],
                      [i \in 1..Len(b) |-> CaseWeight(b[i])], 1)

-----------------------------------------------------------------------------
(* Calendar: JavaScript Date at local midnight as a day number *)

\* Day 0 is 1 January of EpochYear; the clock runs in the year after it, so
\* that the previous year's dates are on the calendar too.
EpochYear == 2026
NumYears == 4
ThisYear == EpochYear + 1

IsLeap(y) == (y % 4 = 0 /\ y % 100 # 0) \/ y % 400 = 0
DaysInMonth(y, m) ==
  IF m = 2 THEN (IF IsLeap(y) THEN 29 ELSE 28)
  ELSE IF m \in {4, 6, 9, 11} THEN 30 ELSE 31
DaysInYear(y) == IF IsLeap(y) THEN 366 ELSE 365

RECURSIVE YearStartRec(_)
YearStartRec(y) == IF y <= EpochYear THEN 0 ELSE YearStartRec(y - 1) + DaysInYear(y - 1)

RECURSIVE MonthStartRec(_, _)
MonthStartRec(y, m) == IF m <= 1 THEN YearStartRec(y)
                       ELSE MonthStartRec(y, m - 1) + DaysInMonth(y, m - 1)

\* The calendar as tables: the day number of the first of each month, and the
\* year, month and day of each day number.
CalYears == EpochYear .. (EpochYear + NumYears)
MonthStartTab == [y \in CalYears |-> [m \in 1..12 |-> MonthStartRec(y, m)]]
YearStart(y) == MonthStartTab[y][1]
MonthStart(y, m) == MonthStartTab[y][m]
CalDays == 0 .. (YearStart(EpochYear + NumYears) - 1)

\* new Date(year, monthIndex, day), m being the month 1..12: a day beyond the
\* month's end runs over into the next month, as in JavaScript.
DayNum(y, m, d) == MonthStart(y, m) + d - 1

DateTab ==
  [n \in CalDays |->
     LET y == CHOOSE yy \in CalYears : YearStart(yy) <= n /\ n < YearStart(yy) + DaysInYear(yy)
         m == CHOOSE mm \in 1..12 :
                MonthStart(y, mm) <= n /\ n < MonthStart(y, mm) + DaysInMonth(y, mm)
     IN  <<y, m, n - MonthStart(y, m) + 1>>]

\* getFullYear(), getMonth() + 1 and getDate() of the Date with day number n
YearOf(n) == DateTab[n][1]
MonthOf(n) == DateTab[n][2]
DayOf(n) == DateTab[n][3]

\* getDay(): 0 = Sunday .. 6 = Saturday; 1 January 2026 is a Thursday, and
\* 1 January of a later EpochYear is found from the years in between.
RECURSIVE DowOfJan1(_)
DowOfJan1(y) == IF y <= 2026 THEN 4 ELSE (DowOfJan1(y - 1) + DaysInYear(y - 1)) % 7
GetDay(n) == (DowOfJan1(EpochYear) + n) % 7

\* "YYYY-MM-DD" as the triple of its numbers, and its characters
IsoStr(t) == NumStr(t[1]) \o <<"-">> \o PadStart2(NumStr(t[2])) \o <<"-">> \o PadStart2(NumStr(t[3]))

\* formatISO(date)
formatISO(n) == DateTab[n]

\* new Date(iso + 'T00:00:00') of an ISO date string
DateOfIso(t) == DayNum(t[1], t[2], t[3])

\* The clock: new Date(), its getTime() in hours, and today at 00:00
GetTime(nw) == nw.day * 24 + nw.hour
TodayOf(nw) == nw.day
GetFullYear(nw) == YearOf(nw.day)
GetMonth(nw) == MonthOf(nw.day) - 1      \* 0-based, as Date.prototype.getMonth

-----------------------------------------------------------------------------
(* Date texts.  A date text is what the date patterns capture in it:       *)
(*   mon  the month its month word names, 1..12, 0 when the word before    *)
(*        the day number is no month name (or nothing matches);            *)
(*   day  the number of its one or two day digits;                         *)
(*   year the number of its four year digits, 0 when it shows no year.     *)
(* A routine that returns string | null returns a sequence of length <= 1. *)

\* src/unnamed/part_005 (metrograph.ts) parseMetrographDate
parseMetrographDateNoRoll(dateText, nw) ==
  IF dateText.mon = 0 THEN <<>>
  ELSE <<<<GetFullYear(nw), dateText.mon, dateText.day>>>>

parseMetrographDate(dateText, nw) ==
  IF dateText.mon = 0 THEN <<>>
  ELSE LET monthNum == dateText.mon
           year == IF monthNum < GetMonth(nw) - 1 THEN GetFullYear(nw) + 1
                   ELSE GetFullYear(nw)
       IN  <<<<year, dateText.mon, dateText.day>>>>

\* src/scrapers/lowcinema.ts parseLowDate
parseLowDate(dateText, nw) ==
  IF dateText.mon = 0 THEN <<>>
  ELSE LET monthNum == dateText.mon
           year == IF monthNum < GetMonth(nw) - 1 THEN GetFullYear(nw) + 1
                   ELSE GetFullYear(nw)
       IN  <<<<year, dateText.mon, dateText.day>>>>

\* 30 days, the threshold of the year roll-over (ifc.ts:138, filmforum.ts:16)
IFC_PAST_DAYS == 30
PAST_DATE_THRESHOLD_DAYS == 30

\* src/scrapers/ifc.ts parseDateHeader; dateText.dow tells whether a weekday
\* abbreviation precedes the month, which the header pattern requires.
parseDateHeader(dateText, nw) ==
  IF ~dateText.dow \/ dateText.mon = 0 THEN <<>>
  ELSE LET monthIdx == dateText.mon - 1
           nowMonth == GetMonth(nw)
           year0 == GetFullYear(nw)
           candidate == DayNum(year0, dateText.mon, dateText.day)
           year == IF monthIdx = 11 /\ (nowMonth = 0 \/ nowMonth = 1) THEN year0 - 1
                   ELSE IF candidate * 24 < GetTime(nw) - IFC_PAST_DAYS * 24 THEN year0 + 1
                   ELSE year0
       IN  <<<<year, dateText.mon, dateText.day>>>>

\* src/scrapers/filmforum.ts extractDatesFromText: the Dates of the first two
\* month-day matches of the text (tokens: the matches in text order).
extractOneDate(tok, nw) ==
  LET year0 == IF tok.year # 0 THEN tok.year ELSE GetFullYear(nw)
      candidate == DayNum(year0, tok.mon, tok.day)
      year == IF tok.year = 0 /\ candidate * 24 < GetTime(nw) - PAST_DATE_THRESHOLD_DAYS * 24
              THEN year0 + 1 ELSE year0
  IN  DayNum(year, tok.mon, tok.day)

extractDatesFromText(tokens, nw) ==
  [i \in 1..(IF Len(tokens) > 2 THEN 2 ELSE Len(tokens)) |-> extractOneDate(tokens[i], nw)]

\* 14 days (filmforum.ts:537)
FF_TWO_WEEKS_DAYS == 14

\* src/scrapers/filmforum.ts fillDateRange(start, end)
fillDateRange13(start, end, nw) ==
  LET last == IF end > TodayOf(nw) + 13 THEN TodayOf(nw) + 13 ELSE end
  IN  IF last < start THEN <<>>
      ELSE [i \in 1..(last - start + 1) |-> formatISO(start + i - 1)]

fillDateRange(start, end, nw) ==
  LET today == TodayOf(nw)
      twoWeeksOut == today + FF_TWO_WEEKS_DAYS
      effectiveEnd == IF end > twoWeeksOut THEN twoWeeksOut ELSE end
  IN  IF effectiveEnd < start THEN <<>>
      ELSE [i \in 1..(effectiveEnd - start + 1) |-> formatISO(start + i - 1)]

\* src/scrapers/filmforum.ts nextOccurrenceOfDay (target: DOW_MAP[dayName])
nextOccurrenceOfDayAfterToday(target, nw) ==
  LET d == TodayOf(nw)
      daysAhead0 == target - GetDay(d)
  IN  d + (IF daysAhead0 <= 0 THEN daysAhead0 + 7 ELSE daysAhead0)

nextOccurrenceOfDay(target, nw) ==
  LET d == TodayOf(nw)
      daysAhead0 == target - GetDay(d)
      daysAhead == IF daysAhead0 < 0 THEN daysAhead0 + 7 ELSE daysAhead0
  IN  d + daysAhead

\* src/scrapers/filmforum.ts PAST_DOW_THRESHOLD_DAYS (filmforum.ts:19)
PAST_DOW_THRESHOLD_DAYS == -3

\* src/scrapers/filmforum.ts isoDateForDow
isoDateForDow(dow, nw) ==
  LET today == TodayOf(nw)
      diff == dow - GetDay(today)
      d == today + diff
  IN  formatISO(IF diff < PAST_DOW_THRESHOLD_DAYS THEN d + 7 ELSE d)

\* src/scrapers/filmforum.ts parseDateRange(text).  The text is
\*   tokens  its month-day matches, opens  whether it says open(s|ing),
\*   endDow  the weekday of its closing-day phrase, -1 when it has none.
\* The empty text has no token, no phrase, and gives [] either way.
parseDateRange(text, nw) ==
  LET today == TodayOf(nw)
      extractedDates == extractDatesFromText(text.tokens, nw)
  IN  IF Len(extractedDates) = 0
      THEN IF text.endDow >= 0
           THEN fillDateRange(today, nextOccurrenceOfDay(text.endDow, nw), nw)
           ELSE <<>>
      ELSE IF Len(extractedDates) = 1
      THEN LET d == extractedDates[1]
           IN  IF text.opens
               THEN (IF d >= today THEN <<formatISO(d)>> ELSE <<formatISO(today)>>)
               ELSE fillDateRange(today, d, nw)
      ELSE LET start == extractedDates[1]
               end == extractedDates[2]
           IN  fillDateRange(IF start >= today THEN start ELSE today, end, nw)

\* new Date("Feb 6, 2026") is a valid Date when the word is a month name and
\* the day is 1..31 (a day beyond the month's end runs over).
ValidDateText(m, d) == m \in 1..12 /\ d \in 1..31

\* src/unnamed/part_007 (bam.ts) parseDateRange(dateText, sortDate).
\*   kind "range": sm sd - em ed, year;  "single": em ed, year;  "other".
\* On a range text the single-date pattern finds its end date and year.
\* hasSortDate: data-sort-date starts with YYYY-MM-DD.
bamParseDateRange(dateText, hasSortDate, nw) ==
  LET today == TodayOf(nw)
      start == DayNum(dateText.year, dateText.sm, dateText.sd)
      end == DayNum(dateText.year, dateText.em, dateText.ed)
  IN  IF dateText.kind = "range" /\ ValidDateText(dateText.sm, dateText.sd)
         /\ ValidDateText(dateText.em, dateText.ed)
      THEN IF end < start THEN <<>>
           ELSE [i \in 1..(end - start + 1) |-> formatISO(start + i - 1)]
      ELSE IF dateText.kind \in {"range", "single"} /\ ValidDateText(dateText.em, dateText.ed)
      THEN <<formatISO(end)>>
      ELSE IF hasSortDate
      THEN [i \in 1..7 |-> formatISO(today + i - 1)]
      ELSE <<formatISO(today)>>

\* 14 days (part_007:82)
BAM_TWO_WEEKS_DAYS == 14

\* src/unnamed/part_007 scrapeBAM, lines 77-98: the dates of a production
\* block that get an entry
bamDatesNoFilter(dateText, hasSortDate, nw) ==
  bamParseDateRange(dateText, hasSortDate, nw)

bamDates(dateText, hasSortDate, nw) ==
  LET today == TodayOf(nw)
      twoWeeksOut == today + BAM_TWO_WEEKS_DAYS
      keep(date) == ~(DateOfIso(date) < today \/ DateOfIso(date) > twoWeeksOut)
  IN  SelectSeq(bamParseDateRange(dateText, hasSortDate, nw), keep)

-----------------------------------------------------------------------------
(* Time texts.  The text of a time link is what the time patterns capture: *)
(*   h  its one or two hour digits,  m  its two minute digits ("" if none),*)
(*   sp the white space between the digits and the meridiem,               *)
(*   ap the meridiem as written ("am", "PM", ...), "" when it has none.    *)

Colon == <<":">>
Space == <<" ">>
SeeTimes == <<"S", "e", "e", " ", "T", "i", "m", "e", "s">>

HasMeridiem(raw) == raw.ap # <<>> /\ raw.m # <<>>

\* src/unnamed/part_005 scrapeMetrograph, lines 120-124:
\*   timeText.match(/(\d{1,2}:\d{2})\s*(am|pm)/i), `${m[1]} ${m[2].toUpperCase()}`
metrographTime(raw) ==
  IF ~HasMeridiem(raw) THEN <<>>
  ELSE <<raw.h \o Colon \o raw.m \o Space \o ToUpperCase(raw.ap)>>

\* src/scrapers/ifc.ts scrapeIFC, lines 64-68:
\*   raw.match(/(\d{1,2}:\d{2}\s*[AP]M)/i), match[1].toUpperCase()
ifcTime(raw) ==
  IF ~HasMeridiem(raw) THEN <<>>
  ELSE <<ToUpperCase(raw.h \o Colon \o raw.m \o raw.sp \o raw.ap)>>

\* src/scrapers/lowcinema.ts normalizeTime: the minutes are optional
normalizeTime(raw) ==
  IF raw.ap = <<>> THEN <<>>
  ELSE LET minutes == IF raw.m = <<>> THEN <<"0", "0">> ELSE raw.m
       IN  <<raw.h \o Colon \o minutes \o Space \o ToUpperCase(raw.ap)>>

\* src/scrapers/filmforum.ts CINEMA_OPENING_HOUR, CINEMA_CLOSING_HOUR
CINEMA_OPENING_HOUR == 9
CINEMA_CLOSING_HOUR == 23

\* src/scrapers/filmforum.ts convertTo12Hour(h24, min)
convertTo12Hour(h24, min) ==
  LET period == IF h24 >= 12 THEN <<"P", "M">> ELSE <<"A", "M">>
      h12 == IF h24 = 0 THEN 12 ELSE IF h24 > 12 THEN h24 - 12 ELSE h24
  IN  NumStr(h12) \o Colon \o min \o Space \o period

\* src/scrapers/filmforum.ts extractTimesFromText: texts is the sequence of
\* H:MM tokens of the text, in text order
extractTimesFromText(texts) ==
  LET with12 == SelectSeq(texts, HasMeridiem)
      plausible(raw) == raw.m # <<>>
                        /\ ~(ParseInt(raw.h) < CINEMA_OPENING_HOUR \/ ParseInt(raw.h) > CINEMA_CLOSING_HOUR)
      bare == SelectSeq(texts, plausible)
  IN  IF Len(with12) > 0
      THEN [i \in 1..Len(with12) |->
              with12[i].h \o Colon \o with12[i].m \o Space \o ToUpperCase(with12[i].ap)]
      ELSE [i \in 1..Len(bare) |-> convertTo12Hour(ParseInt(bare[i].h), bare[i].m)]

-----------------------------------------------------------------------------
(* Showtime records *)

\* .replace(/\s+/g, '-'): each run of white space becomes one hyphen
RECURSIVE ReplaceSpaces(_, _)
ReplaceSpaces(s, i) ==
  IF i > Len(s) THEN <<>>
  ELSE IF IsSpace(s[i])
       THEN (IF i > 1 /\ IsSpace(s[i - 1]) THEN <<>> ELSE <<"-">>) \o ReplaceSpaces(s, i + 1)
       ELSE <<s[i]>> \o ReplaceSpaces(s, i + 1)

\* .replace(/[^a-z0-9-]/gi, '')
KeepIdChar(c) == IsDigit(c) \/ IsLower(c) \/ IsUpper(c) \/ c = "-"

\* `...`.replace(/\s+/g, '-').replace(/[^a-z0-9-]/gi, '').toLowerCase()
MakeId(s) == ToLowerCase(SelectSeq(ReplaceSpaces(s, 1), KeepIdChar))

Hyphen == <<"-">>

Showtime(prefix, theater, film, date, time, idHasTime) ==
  [id |-> MakeId(prefix \o Hyphen \o film \o Hyphen \o IsoStr(date)
                 \o (IF idHasTime THEN Hyphen \o time ELSE <<>>)),
   film |-> film, theater |-> theater, date |-> date, time |-> time]

-----------------------------------------------------------------------------
(* src/scrapers/index.ts: the order of the feed *)

Undefined == <<"u", "n", "d", "e", "f", "i", "n", "e", "d">>
NaN == <<"N", "a", "N">>

\* src/scrapers/index.ts convertTo24Hour(time12h)
convertTo24HourSentinelFirst(time12h) ==
  IF time12h = SeeTimes THEN <<"0", "0", ":", "0", "0">>
  ELSE LET parts == Split(time12h, " ")
           time == parts[1]
           hm == Split(time, ":")
           hours1 == IF hm[1] = <<"1", "2">> THEN <<"0", "0">> ELSE hm[1]
           hours2 == IF Len(parts) >= 2 /\ parts[2] = <<"P", "M">>
                     THEN NumStr(ParseInt(hours1) + 12) ELSE hours1
       IN  PadStart2(hours2) \o Colon \o (IF Len(hm) >= 2 THEN hm[2] ELSE Undefined)

convertTo24Hour(time12h) ==
  LET parts == Split(time12h, " ")
      time == parts[1]
      modifier == IF Len(parts) >= 2 THEN parts[2] ELSE Undefined
      hm == Split(time, ":")
      minutes == IF Len(hm) >= 2 THEN hm[2] ELSE Undefined
      hours1 == IF hm[1] = <<"1", "2">> THEN <<"0", "0">> ELSE hm[1]
      hours2 == IF modifier = <<"P", "M">>
                THEN (IF ParseInt(hours1) < 0 THEN NaN ELSE NumStr(ParseInt(hours1) + 12))
                ELSE hours1
  IN  PadStart2(hours2) \o Colon \o minutes

\* The comparator of allShowtimes.sort, index.ts lines 43-51
compareByTimeOnly(a, b) ==
  LocaleCompare(convertTo24Hour(a.time), convertTo24Hour(b.time))

compareShowtimes(a, b) ==
  LET dateCompare == LocaleCompare(IsoStr(a.date), IsoStr(b.date))
  IN  IF dateCompare # 0 THEN dateCompare
      ELSE LocaleCompare(convertTo24Hour(a.time), convertTo24Hour(b.time))

\* Array.prototype.sort with that comparator: a stable sort
RECURSIVE InsertSorted(_, _)
InsertSorted(sorted, e) ==
  IF sorted = <<>> THEN <<e>>
  ELSE IF compareShowtimes(sorted[Len(sorted)], e) <= 0 THEN Append(sorted, e)
  ELSE Append(InsertSorted(SubSeq(sorted, 1, Len(sorted) - 1), e), sorted[Len(sorted)])

\* the array left as it was collected
SortShowtimesLeftUnsorted(xs) == xs

RECURSIVE SortShowtimes(_)
SortShowtimes(xs) ==
  IF xs = <<>> THEN <<>>
  ELSE InsertSorted(SortShowtimes(SubSeq(xs, 1, Len(xs) - 1)), xs[Len(xs)])

-----------------------------------------------------------------------------
(* The scrapers.  A response is [kind, doc]: kind "threw" (fetch rejects),  *)
(* "nonok" (response.ok is false) or "ok"; doc.bad tells that reading or    *)
(* loading the body throws.  An outcome is [status, value]: status "threw"  *)
(* is an exception in flight, "fulfilled"/"rejected" a settled promise.     *)

Fulfilled(v) == [status |-> "fulfilled", value |-> v]
Threw == [status |-> "threw", value |-> <<>>]
Rejected == [status |-> "rejected", value |-> <<>>]

\* An async function: an exception that leaves its body rejects its promise
Async(r) == IF r.status = "threw" THEN Rejected ELSE r

RECURSIVE Flatten(_)
Flatten(ss) == IF ss = <<>> THEN <<>> ELSE Head(ss) \o Flatten(Tail(ss))

MetrographId == <<"m", "e", "t", "r", "o", "g", "r", "a", "p", "h">>
BamId == <<"b", "a", "m">>
LowId == <<"l", "o", "w", "c", "i", "n", "e", "m", "a">>
IfcId == <<"i", "f", "c">>
FilmForumId == <<"f", "i", "l", "m", "f", "o", "r", "u", "m">>

\* --- Metrograph (src/unnamed/part_005) -----------------------------------
\* A card: [film, poison, children]; a child of div.showtimes is a date
\* header [tag "date", text] or a time block [tag "film_day", links].
metrographLinks(links, film, currentDate) ==
  Flatten([i \in 1..Len(links) |->
             IF metrographTime(links[i]) = <<>> THEN <<>>
             ELSE <<Showtime(MetrographId, "Metrograph", film, currentDate,
                             metrographTime(links[i])[1], TRUE)>>])

RECURSIVE metrographChildren(_, _, _, _, _)
metrographChildren(children, i, currentDate, film, nw) ==
  IF i > Len(children) THEN <<>>
  ELSE IF children[i].tag = "date"
  THEN metrographChildren(children, i + 1, parseMetrographDate(children[i].text, nw), film, nw)
  ELSE IF children[i].tag = "film_day" /\ currentDate # <<>>
  THEN metrographLinks(children[i].links, film, currentDate[1])
       \o metrographChildren(children, i + 1, currentDate, film, nw)
  ELSE metrographChildren(children, i + 1, currentDate, film, nw)

\* the body of the .each callback, with its own try/catch (lines 68-150)
metrographCard(card, nw) ==
  IF card.poison \/ card.film = <<>> THEN <<>>
  ELSE metrographChildren(card.children, 1, <<>>, card.film, nw)

scrapeMetrographNoCatch(resp, nw) ==
  Async(IF resp.kind = "threw" THEN Threw
        ELSE IF resp.kind = "nonok" THEN Fulfilled(<<>>)
        ELSE IF resp.doc.bad THEN Threw
        ELSE Fulfilled(Flatten([i \in 1..Len(resp.doc.cards) |->
                                  metrographCard(resp.doc.cards[i], nw)])))

scrapeMetrograph(resp, nw) ==
  Async(IF resp.kind = "threw" THEN Fulfilled(<<>>)          \* catch (error): return []
        ELSE IF resp.kind = "nonok" THEN Fulfilled(<<>>)     \* !response.ok: return []
        ELSE IF resp.doc.bad THEN Fulfilled(<<>>)            \* catch (error): return []
        ELSE Fulfilled(Flatten([i \in 1..Len(resp.doc.cards) |->
                                  metrographCard(resp.doc.cards[i], nw)])))

\* --- BAM (src/unnamed/part_007, lines 24-109) ----------------------------
\* A production block: [film, poison, dateText, hasSortDate].  The titles of
\* the model hold no HTML entity, so decodeHtmlEntities leaves them as is.
bamBlock(block, nw) ==
  IF block.poison \/ block.film = <<>> THEN <<>>
  ELSE LET dates == bamDates(block.dateText, block.hasSortDate, nw)
       IN  [i \in 1..Len(dates) |->
              Showtime(BamId, "BAM Rose Cinemas", block.film, dates[i], SeeTimes, FALSE)]

scrapeBAM(resp, nw) ==
  Async(IF resp.kind = "threw" THEN Fulfilled(<<>>)
        ELSE IF resp.kind = "nonok" THEN Fulfilled(<<>>)
        ELSE IF resp.doc.bad THEN Fulfilled(<<>>)
        ELSE Fulfilled(Flatten([i \in 1..Len(resp.doc.blocks) |->
                                  bamBlock(resp.doc.blocks[i], nw)])))

\* --- IFC Center (src/scrapers/ifc.ts) ------------------------------------
\* A day block: [header, films]; a film entry: [film, poison, times].
ifcFilm(entry, isoDate) ==
  IF entry.poison \/ entry.film = <<>> THEN <<>>
  ELSE Flatten([i \in 1..Len(entry.times) |->
                  IF ifcTime(entry.times[i]) = <<>> THEN <<>>
                  ELSE <<Showtime(IfcId, "IFC Center", entry.film, isoDate,
                                  ifcTime(entry.times[i])[1], TRUE)>>])

ifcDay(day, nw) ==
  LET isoDate == parseDateHeader(day.header, nw)
  IN  IF isoDate = <<>> THEN <<>>
      ELSE Flatten([i \in 1..Len(day.films) |-> ifcFilm(day.films[i], isoDate[1])])

scrapeIFC(resp, nw) ==
  Async(IF resp.kind = "threw" THEN Fulfilled(<<>>)
        ELSE IF resp.kind = "nonok" THEN Fulfilled(<<>>)
        ELSE IF resp.doc.bad THEN Fulfilled(<<>>)
        ELSE Fulfilled(Flatten([i \in 1..Len(resp.doc.days) |-> ifcDay(resp.doc.days[i], nw)])))

\* --- Low Cinema (src/scrapers/lowcinema.ts, lines 149-278) ---------------
\* The /tickets/ page: cards [title, href], href the number of a movie page
\* (0: no href).  movieUrls: the distinct hrefs in order of first appearance.
RECURSIVE lowMovieUrls(_, _)
lowMovieUrls(cards, i) ==
  IF i = 0 THEN <<>>
  ELSE LET before == lowMovieUrls(cards, i - 1)
           c == cards[i]
       IN  IF c.title = <<>> \/ c.href = 0 \/ \E j \in 1..Len(before) : before[j] = c.href
           THEN before ELSE Append(before, c.href)

\* Map.set keeps the last title given for a path
lowFallbackTitle(cards, href) ==
  cards[CHOOSE i \in 1..Len(cards) :
          /\ cards[i].href = href /\ cards[i].title # <<>>
          /\ \A j \in (i + 1)..Len(cards) : ~(cards[j].href = href /\ cards[j].title # <<>>)].title

\* What the first step of scrapeLowCinema gives: an outcome, or the movie
\* pages to fetch
lowTickets(resp) ==
  IF resp.kind = "threw" THEN [done |-> TRUE, outcome |-> Fulfilled(<<>>), urls |-> <<>>]
  ELSE IF resp.kind = "nonok" THEN [done |-> TRUE, outcome |-> Fulfilled(<<>>), urls |-> <<>>]
  ELSE IF resp.doc.bad THEN [done |-> TRUE, outcome |-> Fulfilled(<<>>), urls |-> <<>>]
  ELSE IF lowMovieUrls(resp.doc.cards, Len(resp.doc.cards)) = <<>>
  THEN [done |-> TRUE, outcome |-> Fulfilled(<<>>), urls |-> <<>>]
  ELSE [done |-> FALSE, outcome |-> Fulfilled(<<>>),
        urls |-> lowMovieUrls(resp.doc.cards, Len(resp.doc.cards))]

\* A movie page: [bad, film, groups]; a group: [dateText, times]
lowGroup(group, film, nw) ==
  LET date == parseLowDate(group.dateText, nw)
  IN  IF date = <<>> THEN <<>>
      ELSE Flatten([i \in 1..Len(group.times) |->
                      IF normalizeTime(group.times[i]) = <<>> THEN <<>>
                      ELSE <<Showtime(LowId, "Low Cinema", film, date[1],
                                      normalizeTime(group.times[i])[1], TRUE)>>])

\* the async callback of movieFetches (lines 187-267): what it pushes
lowMoviePage(resp, fallbackTitle, nw) ==
  IF resp.kind = "threw" THEN <<>>
  ELSE IF resp.kind = "nonok" THEN <<>>
  ELSE IF resp.doc.bad THEN <<>>
  ELSE LET film == IF resp.doc.film # <<>> THEN resp.doc.film ELSE fallbackTitle
       IN  Flatten([i \in 1..Len(resp.doc.groups) |-> lowGroup(resp.doc.groups[i], film, nw)])

\* --- Film Forum (src/scrapers/filmforum.ts) ------------------------------
\* An element of the schedule container: [dow, film, texts]; dow is
\* DOW_MAP[directText], -1 when the direct text is no day label; film is the
\* text before the first H:MM, texts the H:MM tokens of its text.
RECURSIVE pushNew(_, _)
pushNew(showtimes, events) ==
  IF events = <<>> THEN showtimes
  ELSE pushNew(IF \E j \in 1..Len(showtimes) : showtimes[j].id = Head(events).id
               THEN showtimes ELSE Append(showtimes, Head(events)),
               Tail(events))

ffTimed(film, date, times) ==
  [i \in 1..Len(times) |-> Showtime(FilmForumId, "Film Forum", film, date, times[i], TRUE)]

RECURSIVE parseDayOrganizedSchedule(_, _, _, _, _)
parseDayOrganizedSchedule(elements, i, currentDate, showtimes, nw) ==
  IF i > Len(elements) THEN showtimes
  ELSE IF elements[i].dow >= 0
  THEN parseDayOrganizedSchedule(elements, i + 1, <<isoDateForDow(elements[i].dow, nw)>>,
                                 showtimes, nw)
  ELSE IF currentDate = <<>>
          \/ extractTimesFromText(elements[i].texts) = <<>>
          \/ Len(elements[i].film) < 2
  THEN parseDayOrganizedSchedule(elements, i + 1, currentDate, showtimes, nw)
  ELSE parseDayOrganizedSchedule(elements, i + 1, currentDate,
         pushNew(showtimes, ffTimed(elements[i].film, currentDate[1],
                                    extractTimesFromText(elements[i].texts))), nw)

\* A table row: [dow, cells], a cell: [film, texts]
RECURSIVE parseScheduleTable(_, _, _, _)
parseScheduleTable(rows, i, showtimes, nw) ==
  IF i > Len(rows) THEN showtimes
  ELSE IF rows[i].dow < 0 THEN parseScheduleTable(rows, i + 1, showtimes, nw)
  ELSE parseScheduleTable(rows, i + 1,
         pushNew(showtimes,
                 Flatten([c \in 1..Len(rows[i].cells) |->
                            IF rows[i].cells[c].film = <<>> THEN <<>>
                            ELSE ffTimed(rows[i].cells[c].film, isoDateForDow(rows[i].dow, nw),
                                         extractTimesFromText(rows[i].cells[c].texts))])), nw)

\* The homepage: [bad, elements, rows].  The selector strategies A and B read
\* the same elements; strategy C reads the table rows.
extractWeekSchedule(doc, nw) ==
  LET result == parseDayOrganizedSchedule(doc.elements, 1, <<>>, <<>>, nw)
  IN  IF Len(result) > 0 THEN result
      ELSE parseScheduleTable(doc.rows, 1, <<>>, nw)

\* The now_playing page: [bad, blocks, links]; a block: [film, texts];
\* links: the film pages its anchors name
extractFromIndexPage(doc, nw) ==
  Flatten([i \in 1..Len(doc.blocks) |->
             IF doc.blocks[i].film = <<>> THEN <<>>
             ELSE ffTimed(doc.blocks[i].film, formatISO(nw.day),
                          extractTimesFromText(doc.blocks[i].texts))])

collectFilmUrls(doc) == {doc.links[i] : i \in 1..Len(doc.links)}

\* A film page: [bad, film, dateText]
scrapeFilmPage(resp, nw) ==
  IF resp.kind = "threw" THEN Threw
  ELSE IF resp.kind = "nonok" THEN Fulfilled(<<>>)
  ELSE IF resp.doc.bad THEN Threw
  ELSE IF resp.doc.film = <<>> THEN Fulfilled(<<>>)
  ELSE LET dates == parseDateRange(resp.doc.dateText, nw)
       IN  Fulfilled([i \in 1..Len(dates) |->
                        Showtime(FilmForumId, "Film Forum", resp.doc.film, dates[i],
                                 SeeTimes, FALSE)])

\* the async callback of Promise.all (lines 113-120): what it pushes
ffDetail(resp, nw) ==
  IF scrapeFilmPage(resp, nw).status = "threw" THEN <<>>
  ELSE scrapeFilmPage(resp, nw).value

\* ATTEMPT 1 (lines 66-81): the showtimes it returns, <<>> when it falls
\* through to the now_playing page
ffHome(resp, nw) ==
  IF resp.kind = "threw" THEN <<>>
  ELSE IF resp.kind = "nonok" THEN <<>>
  ELSE IF resp.doc.bad THEN <<>>
  ELSE extractWeekSchedule(resp.doc, nw)

\* ATTEMPTS 2 and 3 with the film blocks of the page not tried
ffNowPlayingDetailOnly(resp, nw) ==
  IF resp.kind = "threw" THEN [done |-> TRUE, outcome |-> Fulfilled(<<>>), urls |-> {}]
  ELSE IF resp.kind = "nonok" THEN [done |-> TRUE, outcome |-> Fulfilled(<<>>), urls |-> {}]
  ELSE IF resp.doc.bad THEN [done |-> TRUE, outcome |-> Fulfilled(<<>>), urls |-> {}]
  ELSE IF collectFilmUrls(resp.doc) = {}
  THEN [done |-> TRUE, outcome |-> Fulfilled(<<>>), urls |-> {}]
  ELSE [done |-> FALSE, outcome |-> Fulfilled(<<>>), urls |-> collectFilmUrls(resp.doc)]

\* ATTEMPTS 2 and 3 (lines 86-127) up to the detail fetches
ffNowPlaying(resp, nw) ==
  IF resp.kind = "threw" THEN [done |-> TRUE, outcome |-> Fulfilled(<<>>), urls |-> {}]
  ELSE IF resp.kind = "nonok" THEN [done |-> TRUE, outcome |-> Fulfilled(<<>>), urls |-> {}]
  ELSE IF resp.doc.bad THEN [done |-> TRUE, outcome |-> Fulfilled(<<>>), urls |-> {}]
  ELSE IF Len(extractFromIndexPage(resp.doc, nw)) > 0
  THEN [done |-> TRUE, outcome |-> Fulfilled(extractFromIndexPage(resp.doc, nw)), urls |-> {}]
  ELSE IF collectFilmUrls(resp.doc) = {}
  THEN [done |-> TRUE, outcome |-> Fulfilled(<<>>), urls |-> {}]
  ELSE [done |-> FALSE, outcome |-> Fulfilled(<<>>), urls |-> collectFilmUrls(resp.doc)]

-----------------------------------------------------------------------------
(* The pages the model serves.  The clock of the pipeline is noon of        *)
(* Wednesday 10 February of ThisYear.                                       *)

MainClock == [day |-> DayNum(ThisYear, 2, 10), hour |-> 12]

Ran == <<"R", "a", "n">>
Kes == <<"K", "e", "s">>

Raw(h, m, sp, ap) == [h |-> h, m |-> m, sp |-> sp, ap |-> ap]
T_11am == Raw(<<"1", "1">>, <<"0", "0">>, Space, <<"A", "M">>)    \* "11:00 AM"
T_7pm == Raw(<<"7">>, <<"0", "0">>, <<>>, <<"p", "m">>)           \* "7:00pm"
T_1230am == Raw(<<"1", "2">>, <<"3", "0">>, Space, <<"a", "m">>)  \* "12:30 am"
T_6pm == Raw(<<"6">>, <<>>, Space, <<"P", "M">>)                  \* "6 PM"
T_1215 == Raw(<<"1", "2">>, <<"1", "5">>, <<>>, <<>>)             \* "12:15"
T_700 == Raw(<<"7">>, <<"0", "0">>, <<>>, <<>>)                   \* "7:00"

Hdr(mon, day) == [dow |-> TRUE, mon |-> mon, day |-> day, year |-> 0]
NoText == [dow |-> FALSE, mon |-> 0, day |-> 0, year |-> 0]

Failed(doc) == {[kind |-> "threw", doc |-> doc], [kind |-> "nonok", doc |-> doc]}
Ok(docs) == {[kind |-> "ok", doc |-> d] : d \in docs}

DateChild(text) == [tag |-> "date", text |-> text, links |-> <<>>]
DayChild(links) == [tag |-> "film_day", text |-> NoText, links |-> links]
MetrographCard(film, poison, children) == [film |-> film, poison |-> poison, children |-> children]
MetrographBad == [bad |-> TRUE, cards |-> <<>>]
MetrographDocs ==
  { MetrographBad,
    [bad |-> FALSE, cards |->
       <<MetrographCard(Ran, FALSE, <<DateChild(Hdr(2, 11)), DayChild(<<T_11am>>),
                                      DateChild(Hdr(2, 10)), DayChild(<<T_7pm, T_11am>>)>>),
         MetrographCard(Kes, TRUE, <<>>),
         MetrographCard(Kes, FALSE, <<DayChild(<<T_11am>>), DateChild(Hdr(2, 11)),
                                      DayChild(<<T_1230am, T_1215>>)>>)>>] }
MetrographResponses == Failed(MetrographBad) \cup Ok(MetrographDocs)

BamText(kind, sm, sd, em, ed) ==
  [kind |-> kind, sm |-> sm, sd |-> sd, em |-> em, ed |-> ed, year |-> ThisYear]
BamBlock(film, poison, dateText) ==
  [film |-> film, poison |-> poison, dateText |-> dateText, hasSortDate |-> FALSE]
BamBad == [bad |-> TRUE, blocks |-> <<>>]
BamDocs ==
  { BamBad,
    [bad |-> FALSE, blocks |-> <<BamBlock(Ran, FALSE, BamText("range", 2, 9, 2, 11)),
                                 BamBlock(Kes, TRUE, BamText("other", 0, 0, 0, 0)),
                                 BamBlock(Kes, FALSE, BamText("single", 0, 0, 2, 10))>>] }
BamResponses == Failed(BamBad) \cup Ok(BamDocs)

IfcFilm(film, poison, times) == [film |-> film, poison |-> poison, times |-> times]
IfcBad == [bad |-> TRUE, days |-> <<>>]
IfcDocs ==
  { IfcBad,
    [bad |-> FALSE, days |->
       <<[header |-> Hdr(2, 10), films |-> <<IfcFilm(Ran, FALSE, <<T_7pm, T_11am>>)>>],
         [header |-> NoText, films |-> <<IfcFilm(Ran, FALSE, <<T_11am>>)>>],
         [header |-> Hdr(2, 11), films |-> <<IfcFilm(Kes, TRUE, <<T_11am>>),
                                             IfcFilm(Kes, FALSE, <<T_1230am, T_6pm>>)>>]>>] }
IfcResponses == Failed(IfcBad) \cup Ok(IfcDocs)

MaxPages == 2
Pages == 1..MaxPages

LowCard(title, href) == [title |-> title, href |-> href]
LowTicketsBad == [bad |-> TRUE, cards |-> <<>>]
LowTicketsDocs ==
  { LowTicketsBad,
    [bad |-> FALSE, cards |-> <<LowCard(<<>>, 1), LowCard(Ran, 0)>>],
    [bad |-> FALSE, cards |-> <<LowCard(Kes, 1), LowCard(Kes, 2), LowCard(Ran, 1)>>] }
LowTicketsResponses == Failed(LowTicketsBad) \cup Ok(LowTicketsDocs)

LowMovieBad == [bad |-> TRUE, film |-> <<>>, groups |-> <<>>]
LowMovieDocs(k) ==
  IF k = 1
  THEN {[bad |-> FALSE, film |-> <<>>,
         groups |-> <<[dateText |-> Hdr(2, 10), times |-> <<T_6pm, T_700>>]>>]}
  ELSE {[bad |-> FALSE, film |-> Kes,
         groups |-> <<[dateText |-> NoText, times |-> <<T_6pm>>],
                      [dateText |-> Hdr(2, 11), times |-> <<T_11am>>]>>]}
LowMovieResponses(k) == Failed(LowMovieBad) \cup Ok(LowMovieDocs(k))

RunText(tokens, opens, endDow) == [tokens |-> tokens, opens |-> opens, endDow |-> endDow]
FfElement(dow, film, texts) == [dow |-> dow, film |-> film, texts |-> texts]
FfHomeBad == [bad |-> TRUE, elements |-> <<>>, rows |-> <<>>]
FfHomeDocs ==
  { FfHomeBad,
    [bad |-> FALSE, elements |-> <<FfElement(-1, Ran, <<T_1215>>)>>,
     rows |-> <<[dow |-> -1, cells |-> <<[film |-> Ran, texts |-> <<T_1215>>]>>]>>],
    [bad |-> FALSE, rows |-> <<>>, elements |->
       <<FfElement(3, <<>>, <<>>), FfElement(-1, Ran, <<T_1215, T_700>>),
         FfElement(-1, Ran, <<T_1215>>)>>] }
FfHomeResponses == Failed(FfHomeBad) \cup Ok(FfHomeDocs)

FfNowPlayingBad == [bad |-> TRUE, blocks |-> <<>>, links |-> <<>>]
FfNowPlayingDocs ==
  { FfNowPlayingBad,
    [bad |-> FALSE, blocks |-> <<[film |-> Kes, texts |-> <<T_11am>>]>>, links |-> <<1>>],
    [bad |-> FALSE, blocks |-> <<[film |-> <<>>, texts |-> <<T_11am>>]>>, links |-> <<>>],
    [bad |-> FALSE, blocks |-> <<>>, links |-> <<1, 2, 1>>] }
FfNowPlayingResponses == Failed(FfNowPlayingBad) \cup Ok(FfNowPlayingDocs)

FfFilmBad == [bad |-> TRUE, film |-> <<>>, dateText |-> RunText(<<>>, FALSE, -1)]
FfFilmDocs(k) ==
  IF k = 1
  THEN {[bad |-> FALSE, film |-> Ran, dateText |-> RunText(<<>>, FALSE, 4)]}
  ELSE {FfFilmBad,
        [bad |-> FALSE, film |-> Kes,
         dateText |-> RunText(<<[mon |-> 2, day |-> 10, year |-> 0]>>, TRUE, -1)]}
FfFilmResponses(k) == Failed(FfFilmBad) \cup Ok(FfFilmDocs(k))

-----------------------------------------------------------------------------
(* The pipeline: getAllShowtimes calls the five scrapers, every fetch is    *)
(* answered by the network in any order (or never), and the aggregator      *)
(* resumes when Promise.allSettled settles.                                 *)
(*   fetchSt[u]  "idle", "pending", "hung" (never answered), "failed" (the  *)
(*               fetch threw or the response was not ok) or "ok"            *)
(*   pc[s]       the promise of scraper s: "idle", "pending", "fulfilled",  *)
(*               "rejected";  out[s] the showtimes it has pushed/returned   *)
(*   todo[s]     the detail pages whose callbacks have not finished         *)
(*   movieUrls   Low Cinema's Map path -> title (<<>>: no entry)            *)
(*   aggPc       getAllShowtimes: "idle", "waiting", "returned", "threw"    *)

\* the promises handed to Promise.allSettled, in order (index.ts:21-27)
Scrapers == <<"scrapeMetrograph", "scrapeBAM", "scrapeLowCinema", "scrapeIFC", "scrapeFilmForum">>
ScraperSet == {Scrapers[i] : i \in 1..Len(Scrapers)}

MetrographUrl == <<"scrapeMetrograph", 0>>
BamUrl == <<"scrapeBAM", 0>>
IfcUrl == <<"scrapeIFC", 0>>
LowTicketsUrl == <<"scrapeLowCinema", 0>>
LowMovieUrl(k) == <<"scrapeLowCinema", k>>
FfHomeUrl == <<"scrapeFilmForum", 0>>
FfNowPlayingUrl == <<"scrapeFilmForum", MaxPages + 1>>
FfFilmUrl(k) == <<"scrapeFilmForum", k>>
Urls == {MetrographUrl, BamUrl, IfcUrl, LowTicketsUrl, FfHomeUrl, FfNowPlayingUrl}
        \cup {LowMovieUrl(k) : k \in Pages} \cup {FfFilmUrl(k) : k \in Pages}

\* no date routine has been applied
NotParsed == [fn |-> "none", text |-> <<>>, dates |-> <<>>, range |-> <<>>]

\* the requests to POST /api/notify that are followed
MaxRuns == 2
Runs == 1..MaxRuns

SubscriberIds == {1, 2}
ShowtimeIds == {"a", "b"}

\* a request that has not arrived
IdleJob == [pc |-> "idle", auth |-> "none", showtimes |-> <<>>, i |-> 0,
            newMatches |-> <<>>, sent |-> {}, failed |-> {}, logged |-> {}]

\* the first render of Home: today selected, the 'all' tab, no showtimes,
\* the fetch of the mount effect in flight
FirstRender == [showtimes |-> <<>>, selectedDate |-> formatISO(MainClock.day),
                selectedTheater |-> "all", loading |-> TRUE]

\* an empty subscriber table: per id no row (<<>>) or one row (<<row>>)
NoSubscribers == [rows |-> [k \in SubscriberIds |-> <<>>], status |-> 0]

NoRequest ==
  /\ env = <<>>
  /\ job = [r \in Runs |-> IdleJob]
  /\ notificationLog = {}
  /\ inbox = [k \in SubscriberIds \X ShowtimeIds |-> 0]
  /\ subscribers = NoSubscribers
  /\ home = FirstRender

NothingCalled ==
  /\ NoRequest
  /\ fetchSt = [u \in Urls |-> "idle"]
  /\ pc = [s \in ScraperSet |-> "idle"]
  /\ out = [s \in ScraperSet |-> <<>>]
  /\ todo = [s \in ScraperSet |-> {}]
  /\ movieUrls = [k \in Pages |-> <<>>]
  /\ aggPc = "idle"
  /\ feed = <<>>

Init ==
  /\ now = MainClock
  /\ parsed = NotParsed
  /\ NothingCalled

Seen(resp) == IF resp.kind = "ok" THEN "ok" ELSE "failed"

Settle(s, outcome) ==
  /\ pc' = [pc EXCEPT ![s] = outcome.status]
  /\ out' = [out EXCEPT ![s] = outcome.value]

\* getAllShowtimes up to its await: the five scrapers run to their first fetch
Call ==
  /\ aggPc = "idle"
  /\ aggPc' = "waiting"
  /\ pc' = [s \in ScraperSet |-> "pending"]
  /\ fetchSt' = [u \in Urls |->
                   IF u \in {MetrographUrl, BamUrl, IfcUrl, LowTicketsUrl, FfHomeUrl}
                   THEN "pending" ELSE "idle"]
  /\ UNCHANGED <<appVars, now, parsed, out, todo, movieUrls, feed>>

\* A fetch that is never answered.  fetch is called without a signal or a
\* timeout, so nothing ends the wait.  At most one fetch hangs in a run.
Hang(u) ==
  /\ fetchSt[u] = "pending"
  /\ \A v \in Urls : fetchSt[v] # "hung"
  /\ fetchSt' = [fetchSt EXCEPT ![u] = "hung"]
  /\ UNCHANGED <<appVars, now, parsed, pc, out, todo, movieUrls, aggPc, feed>>

MetrographResponds ==
  /\ fetchSt[MetrographUrl] = "pending"
  /\ \E resp \in MetrographResponses :
       /\ fetchSt' = [fetchSt EXCEPT ![MetrographUrl] = Seen(resp)]
       /\ Settle("scrapeMetrograph", scrapeMetrograph(resp, now))
  /\ UNCHANGED <<appVars, now, parsed, todo, movieUrls, aggPc, feed>>

BamResponds ==
  /\ fetchSt[BamUrl] = "pending"
  /\ \E resp \in BamResponses :
       /\ fetchSt' = [fetchSt EXCEPT ![BamUrl] = Seen(resp)]
       /\ Settle("scrapeBAM", scrapeBAM(resp, now))
  /\ UNCHANGED <<appVars, now, parsed, todo, movieUrls, aggPc, feed>>

IfcResponds ==
  /\ fetchSt[IfcUrl] = "pending"
  /\ \E resp \in IfcResponses :
       /\ fetchSt' = [fetchSt EXCEPT ![IfcUrl] = Seen(resp)]
       /\ Settle("scrapeIFC", scrapeIFC(resp, now))
  /\ UNCHANGED <<appVars, now, parsed, todo, movieUrls, aggPc, feed>>

\* scrapeLowCinema from the answer of /tickets/ to the movie fetches
LowTicketsResponds ==
  /\ fetchSt[LowTicketsUrl] = "pending"
  /\ \E resp \in LowTicketsResponses :
       LET r == lowTickets(resp)
           pages == {r.urls[i] : i \in 1..Len(r.urls)}
       IN  IF r.done
           THEN /\ fetchSt' = [fetchSt EXCEPT ![LowTicketsUrl] = Seen(resp)]
                /\ Settle("scrapeLowCinema", Async(r.outcome))
                /\ UNCHANGED <<todo, movieUrls>>
           ELSE /\ fetchSt' = [u \in Urls |->
                                 IF u = LowTicketsUrl THEN Seen(resp)
                                 ELSE IF \E k \in pages : u = LowMovieUrl(k) THEN "pending"
                                 ELSE fetchSt[u]]
                /\ todo' = [todo EXCEPT !["scrapeLowCinema"] = pages]
                /\ movieUrls' = [k \in Pages |->
                                   IF k \in pages THEN lowFallbackTitle(resp.doc.cards, k)
                                   ELSE <<>>]
                /\ UNCHANGED <<pc, out>>
  /\ UNCHANGED <<appVars, now, parsed, aggPc, feed>>

\* showtimes.push(...events) of a detail callback (lowcinema.ts:247,
\* filmforum.ts:116)
pushLatestOnly(showtimes, events) == events

push(showtimes, events) == showtimes \o events

\* await Promise.all(callbacks) over callbacks that catch every exception:
\* it resolves when none of them is pending
PromiseAllFirstDone(pending) == TRUE

PromiseAll(pending) == pending = {}

\* one movie callback; the last one to finish lets Promise.all resolve and
\* scrapeLowCinema return showtimes
LowMovieResponds(k) ==
  /\ fetchSt[LowMovieUrl(k)] = "pending"
  /\ \E resp \in LowMovieResponses(k) :
       /\ fetchSt' = [fetchSt EXCEPT ![LowMovieUrl(k)] = Seen(resp)]
       /\ out' = [out EXCEPT !["scrapeLowCinema"] = push(@, lowMoviePage(resp, movieUrls[k], now))]
  /\ todo' = [todo EXCEPT !["scrapeLowCinema"] = @ \ {k}]
  /\ pc' = [pc EXCEPT !["scrapeLowCinema"] =
              IF PromiseAll(todo["scrapeLowCinema"] \ {k}) THEN "fulfilled" ELSE @]
  /\ UNCHANGED <<appVars, now, parsed, movieUrls, aggPc, feed>>

\* scrapeFilmForum from the answer of the homepage to its return or to the
\* fetch of /now_playing
FfHomeResponds ==
  /\ fetchSt[FfHomeUrl] = "pending"
  /\ \E resp \in FfHomeResponses :
       IF Len(ffHome(resp, now)) > 0
       THEN /\ fetchSt' = [fetchSt EXCEPT ![FfHomeUrl] = Seen(resp)]
            /\ Settle("scrapeFilmForum", Fulfilled(ffHome(resp, now)))
       ELSE /\ fetchSt' = [fetchSt EXCEPT ![FfHomeUrl] = Seen(resp),
                                          ![FfNowPlayingUrl] = "pending"]
            /\ UNCHANGED <<pc, out>>
  /\ UNCHANGED <<appVars, now, parsed, todo, movieUrls, aggPc, feed>>

FfNowPlayingResponds ==
  /\ fetchSt[FfNowPlayingUrl] = "pending"
  /\ \E resp \in FfNowPlayingResponses :
       LET r == ffNowPlaying(resp, now)
       IN  IF r.done
           THEN /\ fetchSt' = [fetchSt EXCEPT ![FfNowPlayingUrl] = Seen(resp)]
                /\ Settle("scrapeFilmForum", Async(r.outcome))
                /\ UNCHANGED todo
           ELSE /\ fetchSt' = [u \in Urls |->
                                 IF u = FfNowPlayingUrl THEN Seen(resp)
                                 ELSE IF \E k \in r.urls : u = FfFilmUrl(k) THEN "pending"
                                 ELSE fetchSt[u]]
                /\ todo' = [todo EXCEPT !["scrapeFilmForum"] = r.urls]
                /\ UNCHANGED <<pc, out>>
  /\ UNCHANGED <<appVars, now, parsed, movieUrls, aggPc, feed>>

FfFilmPageResponds(k) ==
  /\ fetchSt[FfFilmUrl(k)] = "pending"
  /\ \E resp \in FfFilmResponses(k) :
       /\ fetchSt' = [fetchSt EXCEPT ![FfFilmUrl(k)] = Seen(resp)]
       /\ out' = [out EXCEPT !["scrapeFilmForum"] = push(@, ffDetail(resp, now))]
  /\ todo' = [todo EXCEPT !["scrapeFilmForum"] = @ \ {k}]
  /\ pc' = [pc EXCEPT !["scrapeFilmForum"] =
              IF PromiseAll(todo["scrapeFilmForum"] \ {k}) THEN "fulfilled" ELSE @]
  /\ UNCHANGED <<appVars, now, parsed, movieUrls, aggPc, feed>>

\* Promise.allSettled: settles, and always fulfils, once every promise has
\* settled; results[i] is {status, value} of promise i
AllSettledAnyRejects(p, o) ==
  IF \E i \in 1..Len(Scrapers) : p[Scrapers[i]] = "rejected" THEN Rejected
  ELSE Fulfilled([i \in 1..Len(Scrapers) |-> [status |-> "fulfilled", value |-> o[Scrapers[i]]]])

AllSettled(p, o) ==
  Fulfilled([i \in 1..Len(Scrapers) |-> [status |-> p[Scrapers[i]], value |-> o[Scrapers[i]]]])

\* results.forEach: push the values of the fulfilled results, in order
Collected(results) ==
  Flatten([i \in 1..Len(results) |->
             IF results[i].status = "fulfilled" THEN results[i].value ELSE <<>>])

\* a promise Promise.allSettled no longer waits for
IsSettledOrPending(p) == p \in {"fulfilled", "rejected", "pending"}

IsSettled(p) == p \in {"fulfilled", "rejected"}

\* getAllShowtimes from the settling of Promise.allSettled to its return
Collect ==
  /\ aggPc = "waiting"
  /\ \A s \in ScraperSet : IsSettled(pc[s])
  /\ LET results == AllSettled(pc, out)
     IN  IF results.status = "rejected"
         THEN aggPc' = "threw" /\ feed' = <<>>
         ELSE aggPc' = "returned" /\ feed' = SortShowtimes(Collected(results.value))
  /\ UNCHANGED <<appVars, now, parsed, fetchSt, pc, out, todo, movieUrls>>

Next ==
  \/ Call
  \/ \E u \in Urls : Hang(u)
  \/ MetrographResponds
  \/ BamResponds
  \/ IfcResponds
  \/ LowTicketsResponds
  \/ \E k \in Pages : LowMovieResponds(k)
  \/ FfHomeResponds
  \/ FfNowPlayingResponds
  \/ \E k \in Pages : FfFilmPageResponds(k)
  \/ Collect

Spec == Init /\ [][Next]_vars

-----------------------------------------------------------------------------
(* SpecStub: getAllShowtimes over five promises that settle in any way,     *)
(* fulfilled with a list or rejected.                                       *)

StubEvent(film, day, time) ==
  Showtime(IfcId, "IFC Center", film, formatISO(MainClock.day + day), time, TRUE)

StubList3 ==
  <<StubEvent(Ran, 1, ifcTime(T_11am)[1]), StubEvent(Kes, 0, ifcTime(T_11am)[1]),
    StubEvent(Ran, 0, SeeTimes)>>
StubList5 ==
  StubList3 \o <<StubEvent(Kes, 2, ifcTime(T_1230am)[1]), StubEvent(Kes, 0, ifcTime(T_11am)[1])>>

StubOutcomes == {Rejected, Fulfilled(<<>>), Fulfilled(StubList3), Fulfilled(StubList5)}

CallStub ==
  /\ aggPc = "idle"
  /\ aggPc' = "waiting"
  /\ pc' = [s \in ScraperSet |-> "pending"]
  /\ UNCHANGED <<appVars, now, parsed, fetchSt, out, todo, movieUrls, feed>>

StubSettles(s) ==
  /\ pc[s] = "pending"
  /\ \E outcome \in StubOutcomes : Settle(s, outcome)
  /\ UNCHANGED <<appVars, now, parsed, fetchSt, todo, movieUrls, aggPc, feed>>

NextStub ==
  \/ CallStub
  \/ \E s \in ScraperSet : StubSettles(s)
  \/ Collect

SpecStub == Init /\ [][NextStub]_vars

-----------------------------------------------------------------------------
(* Properties of the pipeline *)

Count(xs, e) == Cardinality({i \in DOMAIN xs : xs[i] = e})
SameBag(xs, ys) ==
  /\ Len(xs) = Len(ys)
  /\ \A i \in DOMAIN xs : Count(xs, xs[i]) = Count(ys, xs[i])

\* the lists of the scrapers whose promise fulfilled, one after the other
FulfilledLists ==
  Flatten([i \in 1..Len(Scrapers) |->
             IF pc[Scrapers[i]] = "fulfilled" THEN out[Scrapers[i]] ELSE <<>>])

Returned == aggPc = "returned"

\* C1: getAllShowtimes never rejects, however the five scrapers settle, and
\* the list it returns holds exactly the showtimes of the fulfilled scrapers,
\* each as often as the scrapers returned it (equal ids are both kept).
C1_NeverRejectsKeepsAll ==
  /\ aggPc # "threw"
  /\ Returned => SameBag(feed, FulfilledLists)

\* C1 happens: lists of 5 and 3 showtimes and a rejected scraper give 8, and
\* two scrapers returned showtimes of equal id
C1_Witness ==
  /\ Returned
  /\ pc["scrapeMetrograph"] = "fulfilled" /\ Len(out["scrapeMetrograph"]) = 5
  /\ pc["scrapeBAM"] = "rejected"
  /\ pc["scrapeLowCinema"] = "fulfilled" /\ Len(out["scrapeLowCinema"]) = 3
  /\ out["scrapeIFC"] = <<>> /\ out["scrapeFilmForum"] = <<>>
  /\ out["scrapeMetrograph"][1].id = out["scrapeLowCinema"][1].id
  /\ Len(feed) = 8

\* C2: no scraper's promise rejects, and a scraper whose page fetch threw or
\* was answered with a non-success status returns the empty list (Film
\* Forum: when both the homepage and /now_playing failed).
C2_ScrapersNeverReject ==
  /\ \A s \in ScraperSet : pc[s] # "rejected"
  /\ \A u \in {MetrographUrl, BamUrl, IfcUrl, LowTicketsUrl} :
       fetchSt[u] = "failed" => pc[u[1]] = "fulfilled" /\ out[u[1]] = <<>>
  /\ fetchSt[FfHomeUrl] = "failed" /\ fetchSt[FfNowPlayingUrl] = "failed"
       => pc["scrapeFilmForum"] = "fulfilled" /\ out["scrapeFilmForum"] = <<>>

C2_Witness ==
  /\ \A u \in {MetrographUrl, BamUrl, IfcUrl, LowTicketsUrl, FfHomeUrl, FfNowPlayingUrl} :
       fetchSt[u] = "failed"
  /\ \A s \in ScraperSet : pc[s] = "fulfilled" /\ out[s] = <<>>

\* C3: the returned feed is in order of date: an event never comes before
\* an event of an earlier date.
C3_FeedOrderedByDate ==
  Returned =>
    \A i, j \in DOMAIN feed : i < j => DateOfIso(feed[i].date) <= DateOfIso(feed[j].date)

\* C3 happens: the scrapers' lists held a later date before an earlier one
C3_Witness ==
  /\ Returned
  /\ \E i, j \in DOMAIN FulfilledLists :
       i < j /\ DateOfIso(FulfilledLists[i].date) > DateOfIso(FulfilledLists[j].date)
  /\ \E i, j \in DOMAIN feed : feed[i].date # feed[j].date

\* the minutes after midnight a time string "H:MM AM", "H:MMPM" names
TimeOfDay(time) ==
  LET hm == Split(time, ":")
      h == ParseInt(hm[1])
      m == ParseInt(SubSeq(hm[2], 1, 2))
      pm == hm[2][Len(hm[2]) - 1] = "P"
  IN  ((h % 12) + (IF pm THEN 12 ELSE 0)) * 60 + m

\* C4: events of the same date are in order of the time of day their time
\* strings name, for every time string a scraper emits.
C4_SameDateByTimeOfDay ==
  Returned =>
    \A i, j \in DOMAIN feed :
      (/\ i < j /\ feed[i].date = feed[j].date
       /\ feed[i].time # SeeTimes /\ feed[j].time # SeeTimes)
      => TimeOfDay(feed[i].time) <= TimeOfDay(feed[j].time)

SeeTimesAt(i, j) ==
  /\ feed[i].date = feed[j].date
  /\ feed[i].time = SeeTimes
  /\ feed[j].time # SeeTimes

\* C5 as stated: within a date, every 'See Times' event comes before every
\* event with a real time.
C5_SeeTimesFirst ==
  Returned => \A i, j \in DOMAIN feed : SeeTimesAt(i, j) => i < j

\* C5: within a date, every 'See Times' event comes after every event with
\* a real time.
C5_SeeTimesLast ==
  Returned => \A i, j \in DOMAIN feed : SeeTimesAt(i, j) => i > j

\* C5 happens: a scraper returned a 'See Times' event before another
\* scraper's timed event of the same date
C5_Witness ==
  /\ Returned
  /\ \E i, j \in DOMAIN FulfilledLists :
       /\ i < j
       /\ FulfilledLists[i].date = FulfilledLists[j].date
       /\ FulfilledLists[i].time = SeeTimes
       /\ FulfilledLists[j].time # SeeTimes

Hung == \E u \in Urls : fetchSt[u] = "hung"
HungScraper(s) == \E u \in Urls : u[1] = s /\ fetchSt[u] = "hung"
OthersSettled == \A s \in ScraperSet : HungScraper(s) \/ IsSettled(pc[s])

C15_FailedDetailStillListed ==
  \A k \in Pages :
    (/\ pc["scrapeLowCinema"] = "fulfilled"
     /\ fetchSt[LowMovieUrl(k)] = "failed")
    => \E i \in DOMAIN out["scrapeLowCinema"] : out["scrapeLowCinema"][i].film = movieUrls[k]

IdSet(showtimes) == {showtimes[i].id : i \in 1..Len(showtimes)}
OkPage(d) == [kind |-> "ok", doc |-> d]

\* the ids of the events of the movie pages that answered, whatever the
\* order of the answers
LowIdsOfPages ==
  UNION {IdSet(lowMoviePage(OkPage(CHOOSE d \in LowMovieDocs(k) : TRUE), movieUrls[k], now)) :
           k \in {p \in Pages : fetchSt[LowMovieUrl(p)] = "ok"}}

FfIdsOfPages(docOf) ==
  UNION {IdSet(ffDetail(OkPage(docOf[k]), now)) :
           k \in {p \in Pages : fetchSt[FfFilmUrl(p)] = "ok"}}

\* C18: over the same pages and the same clock the set of ids a scraper
\* returns is the same whatever the order in which its detail fetches
\* complete: it is the union of what each answered page gives.
C18_SameIdsWhateverOrder ==
  /\ pc["scrapeLowCinema"] = "fulfilled"
       => IdSet(out["scrapeLowCinema"]) = LowIdsOfPages
  /\ (pc["scrapeFilmForum"] = "fulfilled" /\ \E k \in Pages : fetchSt[FfFilmUrl(k)] # "idle")
       => \E docOf \in [Pages -> UNION {FfFilmDocs(k) : k \in Pages}] :
            /\ \A k \in Pages : docOf[k] \in FfFilmDocs(k)
            /\ IdSet(out["scrapeFilmForum"]) = FfIdsOfPages(docOf)

\* C18 happens: both movie pages answered, the second one first
C18_Witness ==
  /\ pc["scrapeLowCinema"] = "fulfilled"
  /\ \A k \in Pages : fetchSt[LowMovieUrl(k)] = "ok"
  /\ Len(out["scrapeLowCinema"]) > 1
  /\ out["scrapeLowCinema"][1].film = Kes
  /\ out["scrapeLowCinema"][Len(out["scrapeLowCinema"])].film = movieUrls[1]

\* 'H:MM AM' or 'H:MM PM': one or two hour digits, a colon, two minute
\* digits, one space, an upper-case meridiem
IsDisplayTime(time) ==
  \E n \in {1, 2} :
    /\ Len(time) = n + 6
    /\ \A k \in 1..n : IsDigit(time[k])
    /\ time[n + 1] = ":"
    /\ IsDigit(time[n + 2]) /\ IsDigit(time[n + 3])
    /\ time[n + 4] = " "
    /\ time[n + 5] \in {"A", "P"} /\ time[n + 6] = "M"

\* C23: the time of every event of every scraper is 'See Times' or has the
\* form 'H:MM AM' / 'H:MM PM', whatever spacing and case the page used.
C23_TimesCanonical ==
  \A s \in ScraperSet : \A i \in 1..Len(out[s]) :
    out[s][i].time = SeeTimes \/ IsDisplayTime(out[s][i].time)

FfDetailStarted == {k \in Pages : fetchSt[FfFilmUrl(k)] # "idle"}

DetailUrls(s) ==
  IF s = "scrapeLowCinema" THEN {LowMovieUrl(k) : k \in Pages}
  ELSE IF s = "scrapeFilmForum" THEN {FfFilmUrl(k) : k \in Pages}
  ELSE {}

\* a scraper that has returned has no detail fetch in flight
NoneInFlightAfterReturn ==
  \A s \in ScraperSet :
    pc[s] = "fulfilled" => \A u \in DetailUrls(s) : fetchSt[u] \notin {"pending", "hung"}

\* the detail fetches of a scraper are started in one step
StartedTogether ==
  \A s \in ScraperSet : \A u \in DetailUrls(s) :
    (fetchSt[u] = "idle" /\ fetchSt'[u] # "idle") => \A v \in DetailUrls(s) : fetchSt[v] = "idle"

\* the list a scraper has returned does not change
ReturnedListFixed ==
  \A s \in ScraperSet : pc[s] = "fulfilled" => (pc'[s] = "fulfilled" /\ out'[s] = out[s])

\* C26: the detail fetches of scrapeLowCinema and of scrapeFilmForum start
\* together, the scraper returns only when every one of them has settled,
\* failed ones included, and nothing is appended to a returned list.
C26_FanInBeforeReturn ==
  /\ []NoneInFlightAfterReturn
  /\ [][StartedTogether /\ ReturnedListFixed]_vars

\* C26 happens: Low Cinema returned the events of the second movie page
\* after the fetch of the first one had failed
C26_Witness ==
  /\ pc["scrapeLowCinema"] = "fulfilled"
  /\ fetchSt[LowMovieUrl(1)] = "failed"
  /\ fetchSt[LowMovieUrl(2)] = "ok"
  /\ out["scrapeLowCinema"] # <<>>

\* the Low Cinema events in the order of the movie Map (the order in which
\* the fetches were started), those of the pages that answered
LowInMapOrder ==
  Flatten([k \in 1..MaxPages |->
             IF fetchSt[LowMovieUrl(k)] = "ok"
             THEN lowMoviePage(OkPage(CHOOSE d \in LowMovieDocs(k) : TRUE), movieUrls[k], now)
             ELSE <<>>])

OfTheater(showtimes, theater) ==
  LET at(e) == e.theater = theater IN SelectSeq(showtimes, at)

\* the Film Forum detail events in the order of the Set of film URLs
FfInSetOrder(docOf) ==
  Flatten([k \in 1..MaxPages |->
             IF fetchSt[FfFilmUrl(k)] = "ok" THEN ffDetail(OkPage(docOf[k]), now) ELSE <<>>])

\* C27: the sequence getAllShowtimes returns does not depend on the order in
\* which the detail fetches complete: the Low Cinema events and the Film
\* Forum detail events of the feed are the sorted events of the answered
\* pages taken in the order of the pages, whichever page answered first.
C27_FeedSequenceFixed ==
  /\ (aggPc = "returned" /\ pc["scrapeLowCinema"] = "fulfilled")
       => OfTheater(feed, "Low Cinema") = SortShowtimes(LowInMapOrder)
  /\ (aggPc = "returned" /\ pc["scrapeFilmForum"] = "fulfilled" /\ FfDetailStarted # {})
       => \E docOf \in [Pages -> UNION {FfFilmDocs(k) : k \in Pages}] :
            /\ \A k \in Pages : docOf[k] \in FfFilmDocs(k)
            /\ OfTheater(feed, "Film Forum") = SortShowtimes(FfInSetOrder(docOf))

Ordered(showtimes) ==
  \A i, j \in 1..Len(showtimes) : i < j => compareShowtimes(showtimes[i], showtimes[j]) <= 0

\* C27 as the code has it: the events of the feed are fixed and they are in
\* the order of date and time; only events with the same date and the same
\* time may change places with the order in which the detail fetches
\* complete.
C27_FeedFixedUpToTies ==
  /\ (aggPc = "returned" /\ pc["scrapeLowCinema"] = "fulfilled")
       => /\ SameBag(OfTheater(feed, "Low Cinema"), LowInMapOrder)
          /\ Ordered(OfTheater(feed, "Low Cinema"))
  /\ (aggPc = "returned" /\ pc["scrapeFilmForum"] = "fulfilled" /\ FfDetailStarted # {})
       => /\ \E docOf \in [Pages -> UNION {FfFilmDocs(k) : k \in Pages}] :
               /\ \A k \in Pages : docOf[k] \in FfFilmDocs(k)
               /\ SameBag(OfTheater(feed, "Film Forum"), FfInSetOrder(docOf))
          /\ Ordered(OfTheater(feed, "Film Forum"))

\* C27 happens: in the returned feed an event of the second film page stands
\* before an event of the first one with the same date and time
C27_Witness ==
  /\ aggPc = "returned"
  /\ \A k \in {1, 2} : fetchSt[FfFilmUrl(k)] = "ok"
  /\ LET part == OfTheater(feed, "Film Forum")
     IN  \E i, j \in 1..Len(part) :
           /\ i < j
           /\ part[i].film = Kes /\ part[j].film = Ran
           /\ part[i].date = part[j].date /\ part[i].time = part[j].time

-----------------------------------------------------------------------------
(* SpecDates: each date routine applied once to a date text, for every day *)
(* of the clock's year.                                                    *)

\* The clock's days: every day of January, February and December of ThisYear
\* and every fourth day of the other months.
ClockDays == {n \in YearStart(ThisYear) .. (YearStart(ThisYear + 1) - 1) :
                MonthOf(n) \in {1, 2, 12} \/ n % 4 = 0}
ClockHours == {0, 12}
Clocks == [day : ClockDays, hour : ClockHours]

TextDays == {3, 15}
TextYears == {0, ThisYear}

\* "Tue Feb 17", "FEB 17", "Tue 17" (no month before the number)
HeaderTexts == [dow : BOOLEAN, mon : 0..12, day : TextDays, year : {0}]
DowHeaderTexts == {t \in HeaderTexts : t.dow}

\* Film Forum run texts: "Opens Friday, March 3", "Through March 15",
\* "February 3 - March 15", "Must end Thursday", "" ...
Tokens == [mon : 1..12, day : TextDays, year : TextYears]
SpanMonths == 2
TokenPairs == {<<a, b>> \in Tokens \X Tokens :
                 /\ a.year = 0 /\ b.year \in {0, ThisYear}
                 /\ a.day = 3 /\ b.day = 15
                 /\ (b.mon - a.mon) % 12 \in 0..SpanMonths}
RunTexts ==
  [tokens : {<<>>}, opens : {FALSE}, endDow : -1..6]
  \cup [tokens : {<<t>> : t \in Tokens}, opens : BOOLEAN, endDow : {-1}]
  \cup [tokens : TokenPairs, opens : {FALSE}, endDow : {-1}]

\* BAM date texts: "Feb 3—Mar 15, 2027", "Wed, Feb 3, 2027", "Now Playing"
BamTexts ==
  {t \in [kind : {"range"}, sm : 0..12, sd : {3}, em : 0..12, ed : {15}, year : {ThisYear}] :
     t.sm = 0 \/ t.em = 0 \/ (t.em - t.sm) \in -1..SpanMonths}
  \cup [kind : {"range"}, sm : {12}, sd : {3}, em : {1}, ed : {15}, year : {ThisYear, ThisYear + 1}]
  \cup [kind : {"single"}, sm : {0}, sd : {0}, em : 0..12, ed : {15}, year : {ThisYear, ThisYear + 1}]
  \cup [kind : {"other"}, sm : {0}, sd : {0}, em : {0}, ed : {0}, year : {0}]

Applied(fn, text, dates, range) ==
  /\ parsed.fn = "none"
  /\ parsed' = [fn |-> fn, text |-> text, dates |-> dates, range |-> range]
  /\ UNCHANGED <<appVars, now, fetchSt, pc, out, todo, movieUrls, aggPc, feed>>

ApplyMetrograph ==
  \E t \in DowHeaderTexts : Applied("parseMetrographDate", t, parseMetrographDate(t, now), <<>>)

ApplyLow ==
  \E t \in DowHeaderTexts : Applied("parseLowDate", t, parseLowDate(t, now), <<>>)

ApplyIfc ==
  \E t \in HeaderTexts : Applied("parseDateHeader", t, parseDateHeader(t, now), <<>>)

ApplyFilmForum ==
  \E t \in RunTexts :
    Applied("parseDateRange", t, parseDateRange(t, now), extractDatesFromText(t.tokens, now))

ApplyDow ==
  \E dow \in 0..6 : Applied("isoDateForDow", dow, <<isoDateForDow(dow, now)>>, <<>>)

ApplyBam ==
  \E t \in BamTexts, hasSortDate \in BOOLEAN :
    Applied("scrapeBAM", <<t, hasSortDate>>,
            bamDates(t, hasSortDate, now),
            IF t.kind = "range" /\ ValidDateText(t.sm, t.sd) /\ ValidDateText(t.em, t.ed)
            THEN <<DayNum(t.year, t.sm, t.sd), DayNum(t.year, t.em, t.ed)>> ELSE <<>>)

InitDates ==
  /\ now \in Clocks
  /\ parsed = NotParsed
  /\ NothingCalled

NextDates ==
  \/ ApplyMetrograph
  \/ ApplyLow
  \/ ApplyIfc
  \/ ApplyFilmForum
  \/ ApplyDow
  \/ ApplyBam

SpecDates == InitDates /\ [][NextDates]_vars

-----------------------------------------------------------------------------
(* Properties of the date routines (SpecDates) *)

Today == TodayOf(now)
AllDates(P(_)) == \A i \in 1..Len(parsed.dates) : P(parsed.dates[i])
InHorizon(t) == Today <= DateOfIso(t) /\ DateOfIso(t) <= Today + 14

\* The texts of a date range that starts today or earlier and ends beyond
\* the horizon: parsed.range holds the range's two Dates.
WideRange(fn) ==
  /\ parsed.fn = fn
  /\ Len(parsed.range) = 2
  /\ parsed.range[1] <= Today
  /\ parsed.range[2] > Today + 14

\* C7 as stated: every date any scraper gives an event lies in
\* today .. today + 14, whatever the source document shows.
C7_AllScrapersInHorizon == AllDates(InHorizon)

\* C7, amended: the dates scrapeBAM gives its events, and the dates Film
\* Forum's parseDateRange gives for a run text that is not an "opens" text,
\* lie in today .. today + 14.  (The other scrapers emit the date the
\* document shows.)
C7_ClippedScrapersInHorizon ==
  (parsed.fn = "scrapeBAM" \/ (parsed.fn = "parseDateRange" /\ ~parsed.text.opens))
    => AllDates(InHorizon)

\* C7 witness: scrapeBAM met a range that starts before today and ends after
\* the horizon, and kept some of its dates.
C7_Witness == WideRange("scrapeBAM") /\ parsed.range[1] < Today /\ Len(parsed.dates) > 0

\* C8 as stated: a range from today or earlier to beyond the horizon expands
\* to at most 14 dates, today .. today + 13.
C8_AtMost14Dates ==
  (WideRange("parseDateRange") \/ WideRange("scrapeBAM"))
    => /\ Len(parsed.dates) <= 14
       /\ parsed.dates = [i \in 1..14 |-> formatISO(Today + i - 1)]

\* C8, amended: such a range expands to exactly the 15 dates
\* today .. today + 14, in Film Forum's parseDateRange/fillDateRange and in
\* BAM's expansion followed by its horizon filter.
C8_Exactly15Dates ==
  (WideRange("parseDateRange") \/ WideRange("scrapeBAM"))
    => parsed.dates = [i \in 1..15 |-> formatISO(Today + i - 1)]

\* C8 witness: Film Forum's parseDateRange expanded such a range.
C8_Witness == WideRange("parseDateRange") /\ Len(parsed.dates) > 0

\* The 30-day rule: the year a year-less month and day resolve to when the
\* date's midnight in the current year lies more than 30 days before now.
MoreThan30DaysPast(mon, day) ==
  DayNum(GetFullYear(now), mon, day) * 24 < GetTime(now) - 30 * 24
YearBy30DayRule(mon, day) ==
  IF MoreThan30DaysPast(mon, day) THEN GetFullYear(now) + 1 ELSE GetFullYear(now)

\* The year Film Forum's extractDatesFromText gave each year-less token
FilmForumFollows30DayRule ==
  parsed.fn = "parseDateRange" =>
    \A i \in 1..Len(parsed.range) :
      parsed.text.tokens[i].year = 0 =>
        YearOf(parsed.range[i]) = YearBy30DayRule(parsed.text.tokens[i].mon, parsed.text.tokens[i].day)

HeaderParsed == parsed.fn \in {"parseMetrographDate", "parseLowDate"} /\ Len(parsed.dates) = 1

\* C9 as stated: parseMetrographDate, parseLowDate and extractDatesFromText
\* resolve a year-less date to the current year unless it lies more than 30
\* days before today, and exactly then to the following year.
C9_All30DayRule ==
  /\ FilmForumFollows30DayRule
  /\ HeaderParsed => parsed.dates[1][1] = YearBy30DayRule(parsed.text.mon, parsed.text.day)

\* C9, amended: extractDatesFromText follows the 30-day rule;
\* parseMetrographDate and parseLowDate resolve to the following year exactly
\* when the text's month is three or more months before the current month,
\* whatever the day, and to the current year otherwise.
C9_YearInference ==
  /\ FilmForumFollows30DayRule
  /\ HeaderParsed =>
       parsed.dates[1][1] = IF parsed.text.mon + 3 <= MonthOf(Today)
                            THEN GetFullYear(now) + 1 ELSE GetFullYear(now)

\* C9 witness: parseMetrographDate kept the current year for a date that lies
\* more than 30 days back, and nothing else told the routine to.
C9_Witness ==
  /\ parsed.fn = "parseMetrographDate" /\ Len(parsed.dates) = 1
  /\ MoreThan30DaysPast(parsed.text.mon, parsed.text.day)
  /\ parsed.dates[1][1] = GetFullYear(now)

\* a Film Forum run text with no month-day date and a closing-day phrase
ClosingDayText ==
  parsed.fn = "parseDateRange" /\ parsed.text.tokens = <<>> /\ parsed.text.endDow >= 0

\* C12: for a run text with no month-day date and a closing-day phrase,
\* parseDateRange returns the consecutive dates from today through the next
\* occurrence of that weekday, today alone when today is that weekday: 1 to
\* 7 dates without a gap.
C12_ThroughClosingDay ==
  ClosingDayText =>
    /\ Len(parsed.dates) = ((parsed.text.endDow - GetDay(Today) + 7) % 7) + 1
    /\ \A i \in 1..Len(parsed.dates) : parsed.dates[i] = formatISO(Today + i - 1)
    /\ GetDay(DateOfIso(parsed.dates[Len(parsed.dates)])) = parsed.text.endDow

\* C12 happens: the closing day is today's weekday, and one date comes back
C12_Witness ==
  ClosingDayText /\ parsed.text.endDow = GetDay(Today) /\ Len(parsed.dates) = 1

\* C13: for every today and every weekday, isoDateForDow returns a date
\* that falls on that weekday and lies at most 3 days before and at most 3
\* days after today.
C13_DowWithinThreeDays ==
  parsed.fn = "isoDateForDow" =>
    /\ GetDay(DateOfIso(parsed.dates[1])) = parsed.text
    /\ DateOfIso(parsed.dates[1]) >= Today - 3
    /\ DateOfIso(parsed.dates[1]) <= Today + 3

\* the date text names no date the routine can resolve
Unresolvable ==
  \/ /\ parsed.fn \in {"parseMetrographDate", "parseLowDate", "parseDateHeader"}
     /\ parsed.text.mon = 0
  \/ /\ parsed.fn = "parseDateRange"
     /\ parsed.text.tokens = <<>> /\ parsed.text.endDow < 0
  \/ /\ parsed.fn = "scrapeBAM"
     /\ \/ parsed.text[1].kind = "other"
        \/ ~ValidDateText(parsed.text[1].em, parsed.text[1].ed)

\* C14: a listing whose date text cannot be resolved to a date gets no
\* event date: no routine puts today, a default run of days or another
\* guessed value in its place.
C14_NoGuessedDate == Unresolvable => parsed.dates = <<>>

\* The year a year-less header text resolved to, for the four header routines
IsText(mon, day) ==
  \/ /\ parsed.fn \in {"parseMetrographDate", "parseLowDate", "parseDateHeader"}
     /\ Len(parsed.dates) = 1
     /\ parsed.text.mon = mon /\ parsed.text.day = day
  \/ /\ parsed.fn = "parseDateRange"
     /\ parsed.text.tokens = <<[mon |-> mon, day |-> day, year |-> 0]>>
ResolvedYear ==
  IF parsed.fn = "parseDateRange" THEN YearOf(parsed.range[1]) ELSE parsed.dates[1][1]
IsToday(mon, day) == MonthOf(Today) = mon /\ DayOf(Today) = day

\* C10 as stated: "Dec 15" read on Jan 10 of year Y is Dec 15 of Y-1, and
\* "Feb 3" read on Dec 20 of year Y is Feb 3 of Y+1, in IFC's parseDateHeader
\* and in the Metrograph, Low Cinema and Film Forum routines.
C10_YearRollover ==
  /\ (IsToday(1, 10) /\ IsText(12, 15)) => ResolvedYear = GetFullYear(now) - 1
  /\ (IsToday(12, 20) /\ IsText(2, 3)) => ResolvedYear = GetFullYear(now) + 1


-----------------------------------------------------------------------------
(* SpecPure: one routine applied once to one bounded input; parsed.text is  *)
(* the input and parsed.dates what the routine returned.                    *)

MaxHour == 24
Minutes == {<<"0", "0">>, <<"1", "5">>}
Bare(h, min) == Raw(NumStr(h), min, <<>>, <<>>)

\* the homepage row "12:15  2:30  4:45  7:00"
ScheduleRow ==
  <<Bare(12, <<"1", "5">>), Bare(2, <<"3", "0">>), Bare(4, <<"4", "5">>), Bare(7, <<"0", "0">>)>>

\* texts of bare H:MM times: one time, two times, and the schedule row
BareTimeTexts ==
  {<<Bare(h, min)>> : h \in 0..MaxHour, min \in Minutes}
  \cup {<<Bare(h, <<"0", "0">>), Bare(g, <<"1", "5">>)>> : h \in {2, 9, 12, 23}, g \in 0..MaxHour}
  \cup {ScheduleRow}

ApplyTimes ==
  \E t \in BareTimeTexts : Applied("extractTimesFromText", t, extractTimesFromText(t), <<>>)

HoursOf(text) == {ParseInt(text[i].h) : i \in 1..Len(text)}

\* the display time of a bare time by cinema hours: 9-11 AM, 12 and 1-8 PM
CinemaTime(raw) ==
  raw.h \o Colon \o raw.m \o Space
  \o (IF ParseInt(raw.h) \in 9..11 THEN <<"A", "M">> ELSE <<"P", "M">>)

\* C11: for a text of bare H:MM times, extractTimesFromText gives one time
\* per listed time, hours 9-11 as AM and hours 12 and 1-8 as PM, and gives
\* nothing for an hour outside 0-23.
C11_BareTimesByCinemaHours ==
  parsed.fn = "extractTimesFromText" =>
    /\ HoursOf(parsed.text) \subseteq 1..12
         => parsed.dates = [i \in 1..Len(parsed.text) |-> CinemaTime(parsed.text[i])]
    /\ (\A h \in HoursOf(parsed.text) : h > 23) => parsed.dates = <<>>

\* Titles that differ in letter case, punctuation or spacing only, and one
\* that differs in its letters
Titles ==
  { Ran, <<"R", "A", "N">>, <<"R", "a", "n", "!">>, <<"R", "a", " ", "n">>,
    <<"R", "a", "-", "n">>, Kes }
EventKeys ==
  [film : Titles,
   date : {formatISO(MainClock.day), formatISO(MainClock.day + 1)},
   time : {ifcTime(T_11am)[1], ifcTime(T_1230am)[1]}]

\* the event scrapeIFC pushes for a film, a date and a time (ifc.ts:76-93)
ifcEvent(key) == Showtime(IfcId, "IFC Center", key.film, key.date, key.time, TRUE)

ApplyIds ==
  \E a, b \in EventKeys :
    Applied("Showtime", <<a, b>>, <<ifcEvent(a).id, ifcEvent(b).id>>, <<>>)

\* C16: two events of one scraper that differ in film title, in date or in
\* display time never get the same id, also when the titles differ only in
\* punctuation, spacing or letter case.
C16_IdInjective ==
  (parsed.fn = "Showtime" /\ parsed.text[1] # parsed.text[2])
    => parsed.dates[1] # parsed.dates[2]

\* Pages that repeat a time, a film or a date block, and one that does not
IfcDay(times) == [header |-> Hdr(2, 10), films |-> <<IfcFilm(Ran, FALSE, times)>>]
IfcRepeatDocs ==
  { [bad |-> FALSE, days |-> <<IfcDay(<<T_11am, T_7pm>>)>>],
    [bad |-> FALSE, days |-> <<IfcDay(<<T_11am, T_11am>>)>>],
    [bad |-> FALSE, days |-> <<IfcDay(<<T_11am>>), IfcDay(<<T_7pm, T_11am>>)>>] }
MetrographRepeatDocs ==
  { [bad |-> FALSE, cards |->
       <<MetrographCard(Ran, FALSE, <<DateChild(Hdr(2, 10)), DayChild(<<T_11am, T_7pm>>)>>)>>],
    [bad |-> FALSE, cards |->
       <<MetrographCard(Ran, FALSE, <<DateChild(Hdr(2, 10)), DayChild(<<T_7pm, T_7pm>>)>>)>>],
    [bad |-> FALSE, cards |->
       <<MetrographCard(Ran, FALSE, <<DateChild(Hdr(2, 10)), DayChild(<<T_11am>>)>>),
         MetrographCard(Ran, FALSE, <<DateChild(Hdr(2, 10)), DayChild(<<T_11am>>)>>)>>] }
FfRepeatDocs ==
  { [bad |-> FALSE, rows |-> <<>>, elements |->
       <<FfElement(3, <<>>, <<>>), FfElement(-1, Ran, <<T_1215, T_1215>>),
         FfElement(-1, Ran, <<T_1215>>), FfElement(3, <<>>, <<>>),
         FfElement(-1, Ran, <<T_1215>>), FfElement(-1, Kes, <<T_1215>>)>>],
    [bad |-> FALSE, elements |-> <<>>, rows |->
       <<[dow |-> 3, cells |-> <<[film |-> Ran, texts |-> <<T_1215, T_1215>>],
                                 [film |-> Ran, texts |-> <<T_1215>>]>>]>>] }

Ids(showtimes) == [i \in 1..Len(showtimes) |-> showtimes[i].id]

ApplyScrapeIfc ==
  \E d \in IfcRepeatDocs :
    Applied("scrapeIFC", d, Ids(scrapeIFC([kind |-> "ok", doc |-> d], now).value), <<>>)

ApplyScrapeMetrograph ==
  \E d \in MetrographRepeatDocs :
    Applied("scrapeMetrograph", d,
            Ids(scrapeMetrograph([kind |-> "ok", doc |-> d], now).value), <<>>)

ApplyWeekSchedule ==
  \E d \in FfRepeatDocs :
    Applied("extractWeekSchedule", d, Ids(extractWeekSchedule(d, now)), <<>>)

ScrapedPage == parsed.fn \in {"scrapeIFC", "scrapeMetrograph", "extractWeekSchedule"}

\* C17: in the list one call of a scraper returns no two events have the
\* same id, also when the page repeats a film, a date block or a time.
C17_IdsUniqueWithinScraper ==
  ScrapedPage =>
    \A i, j \in 1..Len(parsed.dates) : i < j => parsed.dates[i] # parsed.dates[j]

\* String.prototype.includes
Includes(hay, needle) ==
  \E i \in 0..(Len(hay) - Len(needle)) : SubSeq(hay, i + 1, i + Len(needle)) = needle

\* showtime.description || ''  (an absent description is the empty sequence,
\* a present one a sequence holding the text)
DescriptionOrEmpty(showtime) ==
  IF showtime.description = <<>> THEN <<>> ELSE showtime.description[1]

\* the filter callback with the actor case reading the combined text
matchesPreferenceActorAnywhere(pref, filmLower, descLower, combined) ==
  LET valueLower == ToLowerCase(pref.value)
  IN  CASE pref.type = "film"     -> Includes(filmLower, valueLower)
        [] pref.type = "director" -> Includes(combined, valueLower)
        [] pref.type = "actor"    -> Includes(combined, valueLower)
        [] OTHER                  -> FALSE

\* the filter callback of matchShowtime: the switch over pref.type
matchesPreference(pref, filmLower, descLower, combined) ==
  LET valueLower == ToLowerCase(pref.value)
  IN  CASE pref.type = "film"     -> Includes(filmLower, valueLower)
        [] pref.type = "director" -> Includes(combined, valueLower)
        [] pref.type = "actor"    -> Includes(descLower, valueLower)
        [] OTHER                  -> FALSE

matchShowtime(showtime, preferences) ==
  LET filmLower == ToLowerCase(showtime.film)
      descLower == ToLowerCase(DescriptionOrEmpty(showtime))
      combined  == filmLower \o Space \o descLower
      keep(pref) == matchesPreference(pref, filmLower, descLower, combined)
  IN  SelectSeq(preferences, keep)

\* the loop of findMatches from showtime i on
RECURSIVE findMatchesFrom(_, _, _, _)
findMatchesFrom(showtimes, preferences, i, results) ==
  IF i > Len(showtimes) THEN results
  ELSE LET matched == matchShowtime(showtimes[i], preferences)
       IN  findMatchesFrom(showtimes, preferences, i + 1,
             IF Len(matched) > 0
             THEN Append(results, [showtime |-> showtimes[i], matchedPreferences |-> matched])
             ELSE results)

findMatches(showtimes, preferences) == findMatchesFrom(showtimes, preferences, 1, <<>>)

TaxiDriver == <<"T","a","x","i"," ","D","r","i","v","e","r">>
DirScorsese == <<"d","i","r","."," ","M","a","r","t","i","n"," ","S","c","o","r","s","e","s","e">>
Taxi == <<"t","a","x","i">>
Scorsese == <<"s","c","o","r","s","e","s","e">>

MatchEvents ==
  [film : {TaxiDriver, Ran}, description : {<<>>, <<DirScorsese>>}]

PrefTypes == {"film", "director", "actor", "genre"}
PrefValues == {Taxi, Scorsese, <<"M","A","R","T","I","N">>, <<"r"," ","d">>}
Prefs == [type : PrefTypes, value : PrefValues]

MaxPrefs == 2
PrefLists == UNION {[1..n -> Prefs] : n \in 0..MaxPrefs}
MatchFeeds == UNION {[1..n -> MatchEvents] : n \in 0..2}

ApplyMatchShowtime ==
  \E showtime \in MatchEvents, preferences \in PrefLists :
    Applied("matchShowtime", <<showtime, preferences>>,
            matchShowtime(showtime, preferences), <<>>)

ApplyFindMatches ==
  \E showtimes \in MatchFeeds, preferences \in UNION {[1..n -> Prefs] : n \in 0..1} :
    Applied("findMatches", <<showtimes, preferences>>,
            findMatches(showtimes, preferences), <<>>)

\* the rule as a statement about one preference and one event, the title
\* and the synopsis joined with sep between them
RuleHolds(pref, showtime, sep) ==
  LET value    == ToLowerCase(pref.value)
      title    == ToLowerCase(showtime.film)
      synopsis == ToLowerCase(DescriptionOrEmpty(showtime))
  IN  \/ pref.type = "film" /\ Includes(title, value)
      \/ pref.type = "director" /\ Includes(title \o sep \o synopsis, value)
      \/ pref.type = "actor" /\ Includes(synopsis, value)

MatchRules(sep) ==
  /\ parsed.fn = "matchShowtime" =>
        LET holds(pref) == RuleHolds(pref, parsed.text[1], sep)
        IN  parsed.dates = SelectSeq(parsed.text[2], holds)
  /\ parsed.fn = "findMatches" =>
        LET preferences == parsed.text[2]
            any(showtime) == \E i \in 1..Len(preferences) : RuleHolds(preferences[i], showtime, sep)
            kept == SelectSeq(parsed.text[1], any)
        IN  /\ Len(parsed.dates) = Len(kept)
            /\ \A i \in 1..Len(kept) :
                  LET holds(pref) == RuleHolds(pref, kept[i], sep)
                  IN  /\ parsed.dates[i].showtime = kept[i]
                      /\ parsed.dates[i].matchedPreferences = SelectSeq(preferences, holds)

Matched(type, value) ==
  \E i \in 1..Len(parsed.dates) : parsed.dates[i] = [type |-> type, value |-> value]

Asked(type, value) ==
  \E i \in 1..Len(parsed.text[2]) : parsed.text[2][i] = [type |-> type, value |-> value]

\* C20: the event 'Taxi Driver' with synopsis 'dir. Martin Scorsese' matches
\* the preferences (film, 'taxi') and (director, 'scorsese') when asked, and
\* never the preference (actor, 'scorsese').
C20_DirectorNameIsNoActor ==
  (/\ parsed.fn = "matchShowtime"
   /\ parsed.text[1] = [film |-> TaxiDriver, description |-> <<DirScorsese>>])
  => /\ Asked("film", Taxi) => Matched("film", Taxi)
     /\ Asked("director", Scorsese) => Matched("director", Scorsese)
     /\ ~Matched("actor", Scorsese)

\* String.prototype.startsWith
StartsWith(str, prefix) == Len(str) >= Len(prefix) /\ SubSeq(str, 1, Len(prefix)) = prefix

Http == <<"h", "t", "t", "p">>
IfcBase == <<"h", "t", "t", "p", "s", ":", "/", "/", "w", "w", "w", ".", "i", "f", "c", "c", "e", "n", "t", "e", "r", ".", "c", "o", "m">>
MetrographBase == <<"h", "t", "t", "p", "s", ":", "/", "/", "m", "e", "t", "r", "o", "g", "r", "a", "p", "h", ".", "c", "o", "m">>
BamBase == <<"h", "t", "t", "p", "s", ":", "/", "/", "w", "w", "w", ".", "b", "a", "m", ".", "o", "r", "g">>
LowBase == <<"h", "t", "t", "p", "s", ":", "/", "/", "l", "o", "w", "c", "i", "n", "e", "m", "a", ".", "c", "o", "m">>
BASE_URL == <<"h", "t", "t", "p", "s", ":", "/", "/", "f", "i", "l", "m", "f", "o", "r", "u", "m", ".", "o", "r", "g">>

\* an href attribute as written in the page; a missing attribute and an
\* empty one are both the empty string, every use being `attr('href') || x`
Hrefs == {<<>>, <<"h", "t", "t", "p", "s", ":", "/", "/", "t", ".", "c", "o", "/", "1">>, <<"/", "t", "/", "1">>}

\* scrapeIFC: ticketUrl of a time entry
ifcTicketUrl(timeHref, titleHref) ==
  LET filmUrl == IF titleHref # <<>> THEN titleHref ELSE IfcBase
      ticketUrl == IF timeHref # <<>> THEN timeHref ELSE filmUrl
  IN  IF StartsWith(ticketUrl, Http) THEN ticketUrl ELSE IfcBase \o ticketUrl

\* scrapeMetrograph: ticketUrl of a time link
metrographTicketUrl(linkHref, filmPath) ==
  LET filmUrl == IF StartsWith(filmPath, Http) THEN filmPath ELSE MetrographBase \o filmPath
      ticketUrl == IF linkHref # <<>> THEN linkHref ELSE filmUrl
  IN  IF StartsWith(ticketUrl, Http) THEN ticketUrl ELSE MetrographBase \o ticketUrl

\* scrapeBAM: ticketUrl of a block; detailPath starts with /film/ or is empty
bamTicketUrl(buyHref, detailPath) ==
  LET url == BamBase \o <<"/", "f", "i", "l", "m">>
      detailUrl == IF detailPath # <<>> THEN BamBase \o detailPath ELSE url
  IN  IF buyHref # <<>> THEN buyHref ELSE detailUrl

\* scrapeLowCinema: ticketUrl of a showtime link of the movie page at path
lowTicketUrl(isSoldOut, checkoutHref, path) ==
  LET movieUrl == LowBase \o path
  IN  IF isSoldOut THEN movieUrl
      ELSE IF StartsWith(checkoutHref, Http) THEN checkoutHref
      ELSE LowBase \o checkoutHref

\* src/scrapers/filmforum.ts toAbsoluteUrl(href)
toAbsoluteUrl(href) == IF StartsWith(href, Http) THEN href ELSE BASE_URL \o href

\* Film Forum: `href ? toAbsoluteUrl(href) : fallback`
ffTicketUrl(href, fallback) == IF href # <<>> THEN toAbsoluteUrl(href) ELSE fallback

FfFallbacks == {BASE_URL, BASE_URL \o <<"/", "n", "o", "w", "_", "p", "l", "a", "y", "i", "n", "g">>, toAbsoluteUrl(<<"/", "f", "i", "l", "m", "/", "r", "a", "n">>)}

ApplyTicketUrl ==
  \E a, b \in Hrefs :
    \/ Applied("ticketUrl", <<"scrapeIFC", a, b>>, ifcTicketUrl(a, b), <<>>)
    \/ Applied("ticketUrl", <<"scrapeMetrograph", a, b>>, metrographTicketUrl(a, b), <<>>)
    \/ \E detailPath \in {<<>>, <<"/", "f", "i", "l", "m", "/", "r", "a", "n">>} :
         Applied("ticketUrl", <<"scrapeBAM", a, detailPath>>, bamTicketUrl(a, detailPath), <<>>)
    \/ \E isSoldOut \in BOOLEAN :
         Applied("ticketUrl", <<"scrapeLowCinema", isSoldOut, a, b>>, lowTicketUrl(isSoldOut, a, b), <<>>)
    \/ \E fallback \in FfFallbacks :
         Applied("ticketUrl", <<"scrapeFilmForum", a, fallback>>, ffTicketUrl(a, fallback), <<>>)

\* C22: the ticketUrl of every event of every scraper starts with 'http',
\* the link of the page being absolute, site-relative or missing.
C22_TicketUrlAbsolute == parsed.fn = "ticketUrl" => StartsWith(parsed.dates, Http)

InitPure ==
  /\ now = MainClock
  /\ parsed = NotParsed
  /\ NothingCalled

NextPure ==
  \/ ApplyTimes
  \/ ApplyIds
  \/ ApplyScrapeIfc
  \/ ApplyScrapeMetrograph
  \/ ApplyWeekSchedule
  \/ ApplyMatchShowtime
  \/ ApplyFindMatches
  \/ ApplyTicketUrl

SpecPure == InitPure /\ [][NextPure]_vars

-----------------------------------------------------------------------------
(* SpecNotify: POST /api/notify. Each request runs the handler; the requests
   interleave at the handler's awaits. The scrape is taken as the feed it
   returns, the mail service and the database as the outcome of each call. *)

Secret == "s3cret"
AuthHeaders == {"none", "Bearer wrong", "Bearer " \o Secret}

\* the check at the head of POST: TRUE when the request is turned away
RejectsNoRequest(cronSecret, authHeader) == FALSE

Unauthorized(cronSecret, authHeader) ==
  /\ cronSecret # <<>>
  /\ authHeader # "Bearer " \o cronSecret[1]

EventA == [id |-> "a", film |-> TaxiDriver, description |-> <<DirScorsese>>]
EventB == [id |-> "b", film |-> Ran, description |-> <<>>]
NotifyFeeds == {<<>>, <<EventA>>, <<EventA, EventB>>}

\* prisma.subscriber.findMany({where: {active: true}, include: {preferences}})
ActiveSubscribers ==
  <<[id |-> 1, preferences |-> <<[type |-> "film", value |-> Taxi]>>],
    [id |-> 2, preferences |-> <<[type |-> "director", value |-> Scorsese],
                                 [type |-> "film", value |-> Ran]>>]>>

MatchesOf(j, i) == findMatches(j.showtimes, ActiveSubscribers[i].preferences)

\* the head of the loop body, up to the first await: the subscribers from i
\* on without preferences or without matches are passed over
RECURSIVE Continue(_, _)
Continue(j, i) ==
  IF i > Len(ActiveSubscribers) THEN [j EXCEPT !.pc = "200", !.i = i, !.newMatches = <<>>]
  ELSE IF Len(ActiveSubscribers[i].preferences) = 0 \/ Len(MatchesOf(j, i)) = 0
       THEN Continue(j, i + 1)
       ELSE [j EXCEPT !.pc = "existingLogs", !.i = i, !.newMatches = <<>>]

\* sendNotificationEmail: throws when resend answers with an error
sendNotificationEmailNoThrow(error) == Fulfilled(<<>>)

sendNotificationEmail(error) == IF error THEN Threw ELSE Fulfilled(<<>>)

MatchIds(matches) == {matches[k].showtime.id : k \in 1..Len(matches)}

NotifyUnchanged == UNCHANGED <<scraperVars, env, subscribers, home>>

\* a request arrives (the requests are numbered in the order of arrival):
\* the secret check, then getAllShowtimes is awaited
Post(r) ==
  /\ job[r].pc = "idle"
  /\ \A q \in Runs : q < r => job[q].pc # "idle"
  /\ \E authHeader \in AuthHeaders :
       job' = [job EXCEPT ![r].auth = authHeader,
                          ![r].pc = IF Unauthorized(env, authHeader) THEN "401"
                                    ELSE "getAllShowtimes"]
  /\ UNCHANGED <<notificationLog, inbox>>
  /\ NotifyUnchanged

\* getAllShowtimes returns; an empty feed ends the job
Scraped(r) ==
  /\ job[r].pc = "getAllShowtimes"
  /\ \E showtimes \in NotifyFeeds :
       job' = [job EXCEPT ![r].showtimes = showtimes,
                          ![r].pc = IF Len(showtimes) = 0 THEN "200" ELSE "subscribers"]
  /\ UNCHANGED <<notificationLog, inbox>>
  /\ NotifyUnchanged

\* prisma.subscriber.findMany returns or throws
SubscribersRead(r) ==
  /\ job[r].pc = "subscribers"
  /\ \E threw \in BOOLEAN :
       job' = [job EXCEPT ![r] = IF threw THEN [@ EXCEPT !.pc = "500"] ELSE Continue(@, 1)]
  /\ UNCHANGED <<notificationLog, inbox>>
  /\ NotifyUnchanged

\* prisma.notificationLog.findMany returns: the matches not yet logged
ExistingLogsRead(r) ==
  /\ job[r].pc = "existingLogs"
  /\ LET j == job[r]
         matches == MatchesOf(j, j.i)
         notifiedIds == {id \in MatchIds(matches) : <<ActiveSubscribers[j.i].id, id>> \in notificationLog}
         fresh(m) == m.showtime.id \notin notifiedIds
         newMatches == SelectSeq(matches, fresh)
     IN  job' = [job EXCEPT ![r] = IF Len(newMatches) = 0 THEN Continue(j, j.i + 1)
                                   ELSE [j EXCEPT !.pc = "send", !.newMatches = newMatches]]
  /\ UNCHANGED <<notificationLog, inbox>>
  /\ NotifyUnchanged

\* sendNotificationEmail settles
Sent(r) ==
  /\ job[r].pc = "send"
  /\ \E error \in BOOLEAN :
       LET j == job[r]
           sub == ActiveSubscribers[j.i].id
       IN  /\ inbox' = [k \in DOMAIN inbox |->
                          IF ~error /\ k[1] = sub /\ k[2] \in MatchIds(j.newMatches)
                          THEN inbox[k] + 1 ELSE inbox[k]]
           /\ job' = [job EXCEPT ![r] =
                        IF sendNotificationEmail(error).status = "threw"
                        THEN [Continue(j, j.i + 1) EXCEPT !.failed = @ \cup (IF error THEN {sub} ELSE {})]
                        ELSE [j EXCEPT !.pc = "createMany",
                                       !.failed = @ \cup (IF error THEN {sub} ELSE {}),
                                       !.sent = @ \cup (IF error THEN {}
                                                        ELSE {<<sub, id>> : id \in MatchIds(j.newMatches)})]]
  /\ UNCHANGED notificationLog
  /\ NotifyUnchanged

\* prisma.notificationLog.createMany({skipDuplicates: true}) settles
Logged(r) ==
  /\ job[r].pc = "createMany"
  /\ \E threw \in BOOLEAN :
       LET j == job[r]
           rows == {<<ActiveSubscribers[j.i].id, id>> : id \in MatchIds(j.newMatches)}
       IN  /\ notificationLog' = IF threw THEN notificationLog ELSE notificationLog \cup rows
           /\ job' = [job EXCEPT ![r] =
                        [Continue(j, j.i + 1) EXCEPT !.logged = IF threw THEN @ ELSE @ \cup rows]]
  /\ UNCHANGED inbox
  /\ NotifyUnchanged

InitNotify ==
  /\ now = MainClock
  /\ parsed = NotParsed
  /\ fetchSt = [u \in Urls |-> "idle"]
  /\ pc = [s \in ScraperSet |-> "idle"]
  /\ out = [s \in ScraperSet |-> <<>>]
  /\ todo = [s \in ScraperSet |-> {}]
  /\ movieUrls = [k \in Pages |-> <<>>]
  /\ aggPc = "idle"
  /\ feed = <<>>
  /\ env \in {<<>>, <<Secret>>}
  /\ job = [r \in Runs |-> IdleJob]
  /\ notificationLog = {}
  /\ inbox = [k \in SubscriberIds \X ShowtimeIds |-> 0]
  /\ subscribers = NoSubscribers
  /\ home = FirstRender

NextNotify ==
  \/ \E r \in Runs : Post(r)
  \/ \E r \in Runs : Scraped(r)
  \/ \E r \in Runs : SubscribersRead(r)
  \/ \E r \in Runs : ExistingLogsRead(r)
  \/ \E r \in Runs : Sent(r)
  \/ \E r \in Runs : Logged(r)

SpecNotify == InitNotify /\ [][NextNotify]_vars

\* C21: across the requests, overlapping or not, with or without a failed
\* database write, no subscriber is emailed twice about one showtime id.
C21_NoSecondEmail == \A k \in DOMAIN inbox : inbox[k] <= 1

\* a request without the bearer header of the secret was answered 401 and
\* did nothing else
TurnedAway(r) ==
  (job[r].pc # "idle" /\ job[r].auth # "Bearer " \o Secret)
  => /\ job[r].pc = "401"
     /\ job[r].showtimes = <<>>
     /\ job[r].sent = {} /\ job[r].failed = {} /\ job[r].logged = {}

\* C25 as stated: whatever the environment, a request that does not carry
\* 'authorization: Bearer <CRON_SECRET>' gets 401 and causes no scrape, no
\* email and no log row.
C25_UnauthorizedNeverRuns == \A r \in Runs : TurnedAway(r)

\* C25 as the code has it: when CRON_SECRET is set (to a non-empty string), a
\* request that does not carry 'authorization: Bearer <CRON_SECRET>' gets 401
\* and causes no scrape, no email and no log row.
C25_UnauthorizedNeverRunsWithSecret == env # <<>> => \A r \in Runs : TurnedAway(r)

\* C25 happens: with the secret set one request was turned away and another,
\* carrying the header, sent an email
C25_Witness ==
  /\ env = <<Secret>>
  /\ \E r, q \in Runs :
       /\ job[r].auth = "Bearer wrong" /\ job[r].pc = "401"
       /\ job[q].auth = "Bearer " \o Secret /\ job[q].sent # {}

\* C28: a request writes a log row (subscriber, showtime id) only after its
\* email to that subscriber naming that showtime went out; a request whose
\* email to a subscriber failed writes no row for that subscriber.
C28_LoggedOnlyAfterSent ==
  \A r \in Runs :
    /\ job[r].logged \subseteq job[r].sent
    /\ \A row \in job[r].logged : row[1] \notin job[r].failed

\* C28 happens: a finished request whose email to subscriber 1 failed and
\* whose email to subscriber 2 was sent and logged; the match of subscriber
\* 1 has no row, so a later request reads it as new
C28_Witness ==
  \E r \in Runs :
    /\ job[r].pc = "200"
    /\ job[r].failed = {1}
    /\ job[r].logged # {}
    /\ \A id \in ShowtimeIds : <<1, id>> \notin notificationLog
    /\ \E row \in job[r].logged : row[1] = 2

-----------------------------------------------------------------------------
(* SpecSubscribers: POST /api/subscribers and PUT /api/subscribers/[id], each
   request one action (one database call). A JSON value of a request body
   is [t |-> its type, v |-> its value]; the name field is left out. *)

\* String.prototype.trim
RECURSIVE TrimStart(_)
TrimStart(s) == IF s # <<>> /\ IsSpace(Head(s)) THEN TrimStart(Tail(s)) ELSE s

RECURSIVE TrimEnd(_)
TrimEnd(s) == IF s # <<>> /\ IsSpace(s[Len(s)]) THEN TrimEnd(SubSeq(s, 1, Len(s) - 1)) ELSE s

Trim(s) == TrimEnd(TrimStart(s))

JsUndefined == [t |-> "undefined", v |-> <<>>]
JsString(s) == [t |-> "string", v |-> s]
JsNumber(n) == [t |-> "number", v |-> n]
JsArray(a) == [t |-> "array", v |-> a]
JsBoolean(b) == [t |-> "boolean", v |-> b]

\* ToBoolean
Truthy(x) ==
  CASE x.t = "undefined" -> FALSE
    [] x.t = "string"    -> x.v # <<>>
    [] x.t = "number"    -> x.v # 0
    [] x.t = "boolean"   -> x.v
    [] OTHER             -> TRUE

validTypes == {"director", "film", "actor"}

\* the loop of POST over the preferences: "" when all pass, else the error
\* (the first failing preference decides; both failures answer 400)
PostPreferencesValid(preferences) ==
  \A k \in 1..Len(preferences) :
    /\ preferences[k].type \in validTypes
    /\ Truthy(preferences[k].value) /\ preferences[k].value.t = "string"

\* the loop of PUT: only the type is looked at
PutPreferencesValid(preferences) ==
  \A k \in 1..Len(preferences) : preferences[k].type \in validTypes

\* p.value.trim() throws a TypeError unless p.value is a string
TrimThrows(preferences) ==
  \E k \in 1..Len(preferences) : preferences[k].value.t # "string"

\* preferences.map(p => ({type: p.type, value: p.value.trim()}))
create(preferences) ==
  [k \in 1..Len(preferences) |->
     [type |-> preferences[k].type, value |-> Trim(preferences[k].value.v)]]

BodyValues == {JsUndefined, JsNumber(0), JsString(<<>>), JsString(<<" ">>),
               JsString(<<" ", "R", "a", "n", " ">>), JsString(Taxi)}
BodyTypes == {"film", "actor", "genre"}
BodyPrefs == [type : BodyTypes, value : BodyValues]
GoodPref == [type |-> "director", value |-> JsString(Scorsese)]
BodyPreferences ==
  {JsUndefined, JsString(Taxi), JsArray(<<>>)}
    \cup {JsArray(<<p>>) : p \in BodyPrefs} \cup {JsArray(<<p, GoodPref>>) : p \in BodyPrefs}
BodyEmails == {JsUndefined, JsString(<<"A", "@", "x", " ">>), JsString(<<"a", "@", "x">>),
               JsString(<<"b", "@", "x">>)}

RowOf(email) == {k \in SubscriberIds : subscribers.rows[k] # <<>> /\ subscribers.rows[k][1].email = email}
FreeIds == {k \in SubscriberIds : subscribers.rows[k] = <<>>}

Reply(status) == subscribers' = [subscribers EXCEPT !.status = status]

\* POST /api/subscribers
PostSubscriber ==
  /\ \E email \in BodyEmails, preferences \in BodyPreferences :
       IF ~Truthy(email) \/ email.t # "string" THEN Reply(400)
       ELSE IF ~Truthy(preferences) \/ preferences.t # "array" \/ Len(preferences.v) = 0
            THEN Reply(400)
       ELSE IF ~PostPreferencesValid(preferences.v) THEN Reply(400)
       ELSE LET key == Trim(ToLowerCase(email.v))
                row == [email |-> key, active |-> TRUE, preferences |-> create(preferences.v)]
            IN  IF RowOf(key) # {}
                THEN subscribers' = [rows |-> [subscribers.rows EXCEPT ![CHOOSE k \in RowOf(key) : TRUE] = <<row>>],
                                     status |-> 201]
                ELSE IF FreeIds # {}
                THEN subscribers' = [rows |-> [subscribers.rows EXCEPT ![CHOOSE k \in FreeIds : TRUE] = <<row>>],
                                     status |-> 201]
                ELSE Reply(500)
  /\ UNCHANGED <<scraperVars, env, job, notificationLog, inbox, home>>

\* PUT /api/subscribers/[id]; id 0 is the id of no row
PutSubscriber ==
  /\ \E id \in SubscriberIds \cup {0}, active \in {JsUndefined, JsBoolean(TRUE), JsBoolean(FALSE)},
        preferences \in BodyPreferences :
       LET replaces == Truthy(preferences) /\ preferences.t = "array"
       IN  IF replaces /\ ~PutPreferencesValid(preferences.v) THEN Reply(400)
           ELSE IF replaces /\ TrimThrows(preferences.v) THEN Reply(500)
           ELSE IF id \notin SubscriberIds \/ subscribers.rows[id] = <<>> THEN Reply(500)
           ELSE LET old == subscribers.rows[id][1]
                    row == [email |-> old.email,
                            active |-> IF active.t = "undefined" THEN old.active ELSE active.v,
                            preferences |-> IF replaces THEN create(preferences.v) ELSE old.preferences]
                IN  subscribers' = [rows |-> [subscribers.rows EXCEPT ![id] = <<row>>], status |-> 200]
  /\ UNCHANGED <<scraperVars, env, job, notificationLog, inbox, home>>

NextSubscribers == PostSubscriber \/ PutSubscriber

SpecSubscribers == Init /\ [][NextSubscribers]_vars

StoredPreferences ==
  UNION {{subscribers.rows[k][1].preferences[n] : n \in 1..Len(subscribers.rows[k][1].preferences)} :
           k \in {q \in SubscriberIds : subscribers.rows[q] # <<>>}}

\* C29: after any POST and PUT requests every stored preference has a
\* non-empty value after trimming, and so there is a showtime it does not
\* match.
C29_NoEmptyStoredValue ==
  \A pref \in StoredPreferences :
    /\ Trim(pref.value) # <<>>
    /\ \E showtime \in MatchEvents : matchShowtime(showtime, <<pref>>) = <<>>

-----------------------------------------------------------------------------
(* SpecHome: the Home component. Its state changes by a click on a day of
   the day strip, a click on a rendered theater tab, a click on Refresh and
   the arrival of the answer of GET /api/showtimes. *)

THEATERS == <<"Metrograph", "BAM Rose Cinemas", "Low Cinema", "IFC Center", "Film Forum">>

\* DayStrip: for (let i = 0; i < 14; i++)
STRIP_DAYS == 14
StripDates == {formatISO(MainClock.day + i) : i \in 0..(STRIP_DAYS - 1)}

\* theaterCounts: per theater the number of different films on the date
theaterCounts(showtimes, selectedDate) ==
  [k \in 1..Len(THEATERS) |->
     Cardinality({showtimes[n].film : n \in {m \in 1..Len(showtimes) :
                     showtimes[m].date = selectedDate /\ showtimes[m].theater = THEATERS[k]}})]

\* TheaterTabs: the tabs that are rendered
RenderedTabs(counts) == {"all"} \cup {THEATERS[k] : k \in {n \in 1..Len(THEATERS) : counts[n] # 0}}

HomeEvent(theater, film, offset) ==
  [theater |-> theater, film |-> film, date |-> formatISO(MainClock.day + offset)]

HomeFeeds ==
  {<<>>,
   <<HomeEvent("Metrograph", Ran, 0)>>,
   <<HomeEvent("IFC Center", Ran, 1)>>,
   <<HomeEvent("Metrograph", Ran, 0), HomeEvent("IFC Center", Ran, 1)>>,
   <<HomeEvent("Metrograph", Ran, 0), HomeEvent("Metrograph", Kes, 0), HomeEvent("Film Forum", Kes, 1)>>}

HomeUnchanged == UNCHANGED <<scraperVars, env, job, notificationLog, inbox, subscribers>>

\* onDateChange={setSelectedDate}
SelectDate ==
  /\ \E date \in StripDates : home' = [home EXCEPT !.selectedDate = date]
  /\ HomeUnchanged

\* onTabChange={setSelectedTheater}, from a tab that is on the page
SelectTab ==
  /\ \E tab \in RenderedTabs(theaterCounts(home.showtimes, home.selectedDate)) :
       home' = [home EXCEPT !.selectedTheater = tab]
  /\ HomeUnchanged

\* the Refresh button: fetchShowtimes up to its await
Refresh ==
  /\ ~home.loading
  /\ home' = [home EXCEPT !.loading = TRUE]
  /\ HomeUnchanged

\* fetchShowtimes after its await: the feed is stored, or the error is
ShowtimesAnswered ==
  /\ home.loading
  /\ \/ \E showtimes \in HomeFeeds : home' = [home EXCEPT !.showtimes = showtimes, !.loading = FALSE]
     \/ home' = [home EXCEPT !.loading = FALSE]
  /\ HomeUnchanged

NextHome == SelectDate \/ SelectTab \/ Refresh \/ ShowtimesAnswered

SpecHome == Init /\ [][NextHome]_vars

\* C30: after any date selections, tab selections and refreshes the selected
\* theater is 'all' or a theater whose tab is rendered for the selected date.
C30_SelectedTabIsRendered ==
  home.selectedTheater \in RenderedTabs(theaterCounts(home.showtimes, home.selectedDate))

=============================================================================
